---- MODULE Spec2Model ----
(***************************************************************************)
(* Model of the DMOD partitioner service                                   *)
(* (python/services/partitionerservice/dmod/partitionerservice/service.py) *)
(*                                                                         *)
(* Two coroutines of ServiceManager are modelled:                          *)
(*   - manage_job_partitioning, the orchestration task that polls the job  *)
(*     store and partitions every job awaiting partitioning;               *)
(*   - listener / _async_process_request, the request-driven path that     *)
(*     answers one PartitionRequest per connection.                        *)
(* The job store, the data service client and the Docker executor are      *)
(* collaborators: each call to one of them draws its outcome from the set  *)
(* of outcomes its contract allows.                                        *)
(*                                                                         *)
(* The library the service is built on is modelled too: WebSocketInterface *)
(* and WebSocketSessionsInterface (websocket_interface.py), and the        *)
(* messages of dataset_management_message.py and scheduler_request.py,     *)
(* whose constructors, factories and to_dict are operators applied by one  *)
(* call per behaviour.                                                     *)
(***************************************************************************)
EXTENDS Integers, Sequences, FiniteSets, TLC

(***************************************************************************)
(* Bounds of the model.                                                    *)
(***************************************************************************)
\* number of job records in the job store
NumJobs == 2

\* number of messages a client sends on one connection, at most
MaxMessages == 2

\* coroutines registered with add_async_task
MaxTasks == 2

\* shutdown tasks created by signal handlers and by the exception handler
MaxShutdowns == 2

\* get_task_object is asked for the indexes -MaxIndex .. MaxIndex
MaxIndex == 3

\* sessions that have a session id
NumSessions == 2

\* connections a session is registered with
NumConnections == 2

\* calls of register_websocket_session and unregister_websocket_session
MaxCalls == 4

\* whitespace characters before and after a name handed to get_for_name
MaxPad == 1

None == "None"

JobIds == 1..NumJobs

(***************************************************************************)
(* JobExecStep labels (dmod.scheduler.job); only the labels matter here.   *)
(***************************************************************************)
AWAITING_PARTITIONING == "AWAITING_PARTITIONING"
AWAITING_ALLOCATION == "AWAITING_ALLOCATION"
PARTITIONING_FAILED == "PARTITIONING_FAILED"
AWAITING_DATA_CHECK == "AWAITING_DATA_CHECK"

JobExecStep ==
    {AWAITING_DATA_CHECK, AWAITING_PARTITIONING, AWAITING_ALLOCATION, PARTITIONING_FAILED}

(***************************************************************************)
(* Data requirements (dmod.core.meta_data), as service.py reads and builds *)
(* them.  discrete_restrictions is an insertion-ordered dict keyed by      *)
(* variable: a sequence of restrictions with distinct variables.           *)
(***************************************************************************)
DiscreteRestriction(variable, values) == [variable |-> variable, values |-> values]

DataDomain(data_format, discrete_restrictions) ==
    [data_format |-> data_format, discrete_restrictions |-> discrete_restrictions]

\* a requirement whose domain attribute is None
NoDomain == [data_format |-> None, discrete_restrictions |-> <<>>]

DataRequirement(domain, is_input, category, fulfilled_by) ==
    [domain |-> domain, is_input |-> is_input, category |-> category,
     fulfilled_by |-> fulfilled_by]

HydroReq(restrictions) ==
    DataRequirement(DataDomain("NGEN_GEOJSON_HYDROFABRIC", restrictions), TRUE,
                    "HYDROFABRIC", None)

ForcingReq ==
    DataRequirement(DataDomain("AORC_CSV",
                               <<DiscreteRestriction("data_id", <<"d9">>),
                                 DiscreteRestriction("uid", <<"u9">>)>>),
                    TRUE, "FORCING", "forcing-ds")

\* The requirement lists a job awaiting partitioning is given in Init.
ReqLists ==
    { <<HydroReq(<<DiscreteRestriction("data_id", <<"d1">>),
                   DiscreteRestriction("uid", <<"u1">>)>>)>>,
      <<ForcingReq,
        HydroReq(<<DiscreteRestriction("uid", <<"u1">>),
                   DiscreteRestriction("data_id", <<"d1">>)>>)>>,
      <<HydroReq(<<DiscreteRestriction("data_id", <<"d1">>),
                   DiscreteRestriction("uid", <<"u1", "u2">>)>>)>>,
      <<HydroReq(<<DiscreteRestriction("data_id", <<"d1", "d2">>),
                   DiscreteRestriction("uid", <<"u1">>)>>)>>,
      <<HydroReq(<<DiscreteRestriction("data_id", <<"d1">>)>>)>>,
      <<ForcingReq>>,
      <<HydroReq(<<DiscreteRestriction("data_id", <<"d1">>)>>),
        HydroReq(<<DiscreteRestriction("uid", <<"u2">>),
                   DiscreteRestriction("data_id", <<"d2">>)>>)>>,
      <<HydroReq(<<DiscreteRestriction("data_id", <<"d1">>),
                   DiscreteRestriction("uid", <<"u1", "u2">>)>>),
        HydroReq(<<DiscreteRestriction("uid", <<"u2">>)>>)>>,
      <<DataRequirement(NoDomain, TRUE, "HYDROFABRIC", None)>> }

Job(job_id, status_step, data_requirements, cpu_count) ==
    [job_id |-> job_id, status_step |-> status_step,
     data_requirements |-> data_requirements, cpu_count |-> cpu_count]

\* The requirement list of the jobs Init puts at another step.  The loop never
\* reads the requirements of such a job, so one list stands for all.
OtherReqList ==
    <<HydroReq(<<DiscreteRestriction("data_id", <<"d1">>),
                 DiscreteRestriction("uid", <<"u1">>)>>),
      ForcingReq>>

\* Job records the store may hold at start-up.
InitialJobs(j) ==
    { Job(j, AWAITING_PARTITIONING, rl, 2) : rl \in ReqLists }
    \cup { Job(j, s, OtherReqList, 2) : s \in JobExecStep \ {AWAITING_PARTITIONING} }

(***************************************************************************)
(* State.                                                                  *)
(***************************************************************************)
VARIABLES
    store,      \* the job store (Redis): job_id -> persisted Job record
    pc,         \* position of the manage_job_partitioning task
    jobs,       \* the Job objects get_all_active_jobs() returned for this pass
    idx,        \* index in jobs of the job the for loop is at
    snapshot,   \* history: jobs as they were when the pass enumerated them
    frame,      \* locals of manage_job_partitioning for the job in progress
    log,        \* history: collaborator calls since the last job was picked up
    lpc,        \* position of the listener coroutine of the open connection
    lframe,     \* locals of listener / _async_process_request
    inbox,      \* messages the client of the open connection has still to send
    sent,       \* responses sent on the open connection, in order
    rlog,       \* history: collaborator calls made for the open connection
    phase,      \* where run() and the event loop are: init, starting, forever, stopped
    requested,  \* _requested_tasks
    scheduled,  \* _scheduled_tasks
    tstate,     \* state of every asyncio task of the event loop
    order,      \* history: the tasks in the order they were created on the loop
    ret,        \* history: the index add_async_task returned for a coroutine
    sd,         \* the executions of shutdown(), by the task that runs them
    trigger,    \* history: the shutdown task created last and what created it
    got,        \* history: the last call of get_task_object and its result
    closed,     \* history: the number of times run() has called loop.close()
    call,       \* history: the call of the communication library made last
    out,        \* history: what that call returned or raised
    sessions,   \* _sessions_to_websockets
    bound       \* history: the connection each session was last bound to

loopVars == <<store, pc, jobs, idx, snapshot, frame, log>>
listenerVars == <<lpc, lframe, inbox, sent, rlog>>
coreVars == <<phase, requested, scheduled, tstate, order, ret, sd, trigger, got, closed>>
libVars == <<call, out, sessions, bound>>
vars == <<store, pc, jobs, idx, snapshot, frame, log, lpc, lframe, inbox, sent, rlog,
          phase, requested, scheduled, tstate, order, ret, sd, trigger, got, closed,
          call, out, sessions, bound>>

(***************************************************************************)
(* Collaborator outcomes.                                                  *)
(***************************************************************************)
\* Exception classes a data service round trip can raise, as the handlers of
\* listener and _async_process_request tell them apart.
RaisedErrors == {"RuntimeError", "TypeError", "ConnectionClosed", "OSError"}

\* DatasetManagementResponse fields the service reads: success, and the
\* dataset_name / data_id entries of data (None when the key is absent).
DMResponse(success, dataset_name, data_id) ==
    [raised |-> None, success |-> success, dataset_name |-> dataset_name,
     data_id |-> data_id]

DMRaise(error) ==
    [raised |-> error, success |-> FALSE, dataset_name |-> None, data_id |-> None]

\* what async_make_request may give back for the SEARCH request
SearchOutcomes ==
    { DMRaise(e) : e \in RaisedErrors }
    \cup { DMResponse(FALSE, None, None), DMResponse(TRUE, None, None),
           DMResponse(TRUE, "hydrofabric-ds", None) }

\* what async_make_request may give back for the CREATE request
CreateOutcomes ==
    { DMRaise(e) : e \in RaisedErrors }
    \cup { DMResponse(FALSE, None, None), DMResponse(TRUE, None, None),
           DMResponse(TRUE, None, "part-id") }

\* run_container: the container's output, ContainerError on a non-zero exit
\* code, or any other error
RunOutcomes == {"output", "ContainerError", "Exception"}

\* str(uuid4()): the suffixes of the names new datasets are given
Uuids == {"0a1b", "9f8e"}

\* line 87
NewDatasetName(u) == "partition-config-" \o u

(***************************************************************************)
(* _find_required_hydrofabric_details                                      *)
(***************************************************************************)
Details(data_id, uid, returned) ==
    [data_id |-> data_id, uid |-> uid, returned |-> returned, raised |-> FALSE]

\* variant of SkipRestriction: only a restriction without values is passed over,
\* the first value of any other is taken
SkipRestrictionEmptyOnly(restriction) == Len(restriction.values) = 0

\* line 270: a restriction that has not exactly one value is passed over
SkipRestriction(restriction) == Len(restriction.values) /= 1

RECURSIVE ScanRestrictions(_, _, _, _)
ScanRestrictions(rs, k, data_id, uid) ==
    IF k > Len(rs) THEN Details(data_id, uid, FALSE)
    ELSE IF SkipRestriction(rs[k]) THEN ScanRestrictions(rs, k + 1, data_id, uid)
    ELSE IF rs[k].variable = "data_id"
        THEN IF uid /= None
                THEN Details(rs[k].values[1], uid, TRUE)
                ELSE ScanRestrictions(rs, k + 1, rs[k].values[1], uid)
    ELSE IF rs[k].variable = "uid"
        THEN IF data_id /= None
                THEN Details(data_id, rs[k].values[1], TRUE)
                ELSE ScanRestrictions(rs, k + 1, data_id, rs[k].values[1])
    ELSE ScanRestrictions(rs, k + 1, data_id, uid)

RECURSIVE ScanRequirements(_, _, _, _)
ScanRequirements(reqs, k, data_id, uid) ==
    IF k > Len(reqs) THEN Details(data_id, uid, TRUE)
    ELSE IF reqs[k].domain.data_format = None
        \* requirement.domain is None: the attribute access raises
        THEN [data_id |-> data_id, uid |-> uid, returned |-> TRUE, raised |-> TRUE]
    ELSE LET d == ScanRestrictions(reqs[k].domain.discrete_restrictions, 1, data_id, uid)
         IN  IF d.returned THEN d
             ELSE ScanRequirements(reqs, k + 1, d.data_id, d.uid)

IsHydrofabric(requirement) == requirement.category = "HYDROFABRIC"

\* variant of FindRequiredHydrofabricDetails: a missing uid is replaced by
\* the data_id
FindRequiredHydrofabricDetailsUidOptional(job) ==
    LET d == ScanRequirements(SelectSeq(job.data_requirements, IsHydrofabric), 1, None, None)
    IN  IF d.uid = None THEN [d EXCEPT !.uid = d.data_id] ELSE d

FindRequiredHydrofabricDetails(job) ==
    ScanRequirements(SelectSeq(job.data_requirements, IsHydrofabric), 1, None, None)

(***************************************************************************)
(* manage_job_partitioning                                                 *)
(***************************************************************************)
EmptyFrame ==
    [hy_data_id |-> None, hy_uid |-> None, hydrofabric_dataset_name |-> None,
     dataset_name |-> None, part_dataset_name |-> None,
     part_dataset_data_id |-> None]

\* A collaborator call: SEARCH and CREATE requests to the data service, RUN of
\* the container, SAVE of a job.  name is the dataset name a CREATE request
\* carries, data_id the data_id its response carries, res the call's outcome.
Event(op, job_id, res, name) ==
    [op |-> op, job_id |-> job_id, res |-> res, name |-> name, data_id |-> None]

\* the outcome of the call the log ends with
Resolve(l, res, data_id) == [l EXCEPT ![Len(l)].res = res, ![Len(l)].data_id = data_id]

\* the exception classes raised in the try block that derive from Exception
ExceptionClasses ==
    {"RuntimeError", "TypeError", "ConnectionClosed", "OSError", "AttributeError",
     "DmodRuntimeError"}

\* variant of HandlerCatches: except DmodRuntimeError
HandlerCatchesDmodOnly(error) == error = "DmodRuntimeError"

\* line 374: except Exception
HandlerCatches(error) == error \in ExceptionClasses

\* get_all_active_jobs(): fresh Job objects read from the store
GetAllActiveJobs(st) == [i \in 1..NumJobs |-> st[i]]

\* save_job(job): the record replaces the persisted one, unless the save fails
SaveJob(st, job, ok) == IF ok THEN [st EXCEPT ![job.job_id] = job] ELSE st

\* variant of IsCandidate: a failed job is tried again
IsCandidateOrFailed(job) ==
    job.status_step \in {AWAITING_PARTITIONING, PARTITIONING_FAILED}

\* variant of IsCandidate: every job not yet partitioned is processed
IsCandidateNotAllocated(job) == job.status_step /= AWAITING_ALLOCATION

\* line 343: only a job awaiting partitioning is processed
IsCandidate(job) == job.status_step = AWAITING_PARTITIONING

\* variant of OnException: the handler leaves the job's step as it is
OnExceptionKeepsStep(job) == job

\* lines 374-376: the handler of the try block
OnException(job) == [job EXCEPT !.status_step = PARTITIONING_FAILED]

\* variant of ExecutePartitionerContainer: the handler of Exception comes
\* first, so a non-zero exit is raised like any other error
ExecutePartitionerContainerRaisesAll(outcome) ==
    CASE outcome = "output" ->
            [raised |-> FALSE, result |-> TRUE, logs |-> outcome, cause |-> None]
      [] OTHER -> [raised |-> TRUE, result |-> FALSE, logs |-> None, cause |-> outcome]

\* lines 219-248: the executor's outcome as _execute_partitioner_container
\* hands it on: (True, logs), (False, None) for ContainerError, and for any
\* other error a RuntimeError raised from it (raised, with the error as cause)
ExecutePartitionerContainer(outcome) ==
    CASE outcome = "output" ->
            [raised |-> FALSE, result |-> TRUE, logs |-> outcome, cause |-> None]
      [] outcome = "ContainerError" ->
            [raised |-> FALSE, result |-> FALSE, logs |-> None, cause |-> None]
      [] OTHER -> [raised |-> TRUE, result |-> FALSE, logs |-> None, cause |-> outcome]

\* variant of OnResult: the dataset's name and data_id are swapped
OnResultSwapped(job, result, part_dataset_name, part_dataset_data_id) ==
    IF result
    THEN [job EXCEPT
            !.data_requirements = Append(@,
                DataRequirement(
                    DataDomain("NGEN_PARTITION_CONFIG",
                               <<DiscreteRestriction("data_id", <<part_dataset_name>>)>>),
                    TRUE, "CONFIG", part_dataset_data_id)),
            !.status_step = AWAITING_ALLOCATION]
    ELSE [job EXCEPT !.status_step = PARTITIONING_FAILED]

\* variant of OnResult: the requirement is appended before result is looked at
OnResultAppendsFirst(job, result, part_dataset_name, part_dataset_data_id) ==
    [job EXCEPT
        !.data_requirements = Append(@,
            DataRequirement(
                DataDomain("NGEN_PARTITION_CONFIG",
                           <<DiscreteRestriction("data_id", <<part_dataset_data_id>>)>>),
                TRUE, "CONFIG", part_dataset_name)),
        !.status_step = IF result THEN AWAITING_ALLOCATION ELSE PARTITIONING_FAILED]

\* lines 364-373: the job after the executor returned result
OnResult(job, result, part_dataset_name, part_dataset_data_id) ==
    IF result
    THEN [job EXCEPT
            !.data_requirements = Append(@,
                DataRequirement(
                    DataDomain("NGEN_PARTITION_CONFIG",
                               <<DiscreteRestriction("data_id", <<part_dataset_data_id>>)>>),
                    TRUE, "CONFIG", part_dataset_name)),
            !.status_step = AWAITING_ALLOCATION]
    ELSE [job EXCEPT !.status_step = PARTITIONING_FAILED]

\* variant of AfterSave: a failed save is tried again
AfterSaveRetries(ok, i) ==
    IF ok THEN [pc |-> "for", idx |-> i + 1] ELSE [pc |-> "save", idx |-> i]

\* lines 377-383, 342: where the task goes on after save_job(jobs[i]) returned
\* (ok) or raised: the bare except passes, the for loop takes the next job
AfterSave(ok, i) == [pc |-> "for", idx |-> i + 1]

\* lines 374-376: error is raised in the try block; when the handler catches it
\* the job is failed and save is next, otherwise the error ends the task
Raise(error) ==
    IF HandlerCatches(error)
    THEN /\ jobs' = [jobs EXCEPT ![idx] = OnException(@)]
         /\ pc' = "save"
    ELSE /\ pc' = "raised"
         /\ UNCHANGED jobs

\* line 342: a pass starts by enumerating the active jobs
StartPass ==
    /\ pc = "poll"
    /\ jobs' = GetAllActiveJobs(store)
    /\ snapshot' = GetAllActiveJobs(store)
    /\ idx' = 1
    /\ log' = <<>>
    /\ pc' = "for"
    /\ UNCHANGED <<store, frame>>
    /\ UNCHANGED <<listenerVars, coreVars, libVars>>

\* line 342: the job store fails to enumerate; nothing catches the error
EnumerateRaises ==
    /\ pc = "poll"
    /\ pc' = "raised"
    /\ UNCHANGED <<store, jobs, idx, snapshot, frame, log>>
    /\ UNCHANGED <<listenerVars, coreVars, libVars>>

\* lines 343-344: continue
SkipJob ==
    /\ pc = "for"
    /\ idx <= Len(jobs)
    /\ ~IsCandidate(jobs[idx])
    /\ idx' = idx + 1
    /\ UNCHANGED <<store, pc, jobs, snapshot, frame, log>>
    /\ UNCHANGED <<listenerVars, coreVars, libVars>>

\* lines 345-351: extract the hydrofabric details and send the SEARCH request
PickUpJob ==
    /\ pc = "for"
    /\ idx <= Len(jobs)
    /\ IsCandidate(jobs[idx])
    /\ LET d == FindRequiredHydrofabricDetails(jobs[idx])
       IN  IF d.raised \/ d.data_id = None \/ d.uid = None
           THEN /\ Raise(IF d.raised THEN "AttributeError" ELSE "DmodRuntimeError")
                /\ log' = <<>>
                /\ UNCHANGED frame
           ELSE /\ frame' = [EmptyFrame EXCEPT !.hy_data_id = d.data_id,
                                               !.hy_uid = d.uid]
                /\ log' = <<Event("SEARCH", jobs[idx].job_id, "pending", None)>>
                /\ pc' = "lookup"
                /\ UNCHANGED jobs
    /\ UNCHANGED <<store, idx, snapshot>>
    /\ UNCHANGED <<listenerVars, coreVars, libVars>>

\* lines 117-118, 351-356, 87-90: the SEARCH response arrives; with a name, the
\* CREATE request for a newly named dataset is sent
LookupReturns ==
    /\ pc = "lookup"
    /\ \E r \in SearchOutcomes :
         LET name == IF r.success THEN r.dataset_name ELSE None
         IN  IF r.raised /= None \/ name = None
             THEN /\ Raise(IF r.raised /= None THEN r.raised ELSE "DmodRuntimeError")
                  /\ log' = Resolve(log, IF r.raised /= None THEN "raised" ELSE "none", None)
                  /\ UNCHANGED frame
             ELSE \E u \in Uuids :
                  /\ frame' = [frame EXCEPT !.hydrofabric_dataset_name = name,
                                            !.dataset_name = NewDatasetName(u)]
                  /\ log' = Append(Resolve(log, "ok", None),
                                   Event("CREATE", jobs[idx].job_id, "pending",
                                         NewDatasetName(u)))
                  /\ pc' = "create"
                  /\ UNCHANGED jobs
    /\ UNCHANGED <<store, idx, snapshot>>
    /\ UNCHANGED <<listenerVars, coreVars, libVars>>

\* lines 90-91, 356-358: the CREATE response arrives
CreateReturns ==
    /\ pc = "create"
    /\ \E r \in CreateOutcomes :
         LET name == IF r.success THEN frame.dataset_name ELSE None
             data_id == IF r.success THEN r.data_id ELSE None
         IN  IF r.raised /= None \/ name = None \/ data_id = None
             THEN /\ Raise(IF r.raised /= None THEN r.raised ELSE "DmodRuntimeError")
                  /\ log' = Resolve(log, IF r.raised /= None THEN "raised"
                                         ELSE IF r.success THEN "no_data_id" ELSE "none",
                                    None)
                  /\ UNCHANGED frame
             ELSE /\ frame' = [frame EXCEPT !.part_dataset_name = name,
                                            !.part_dataset_data_id = data_id]
                  /\ log' = Resolve(log, "ok", data_id)
                  /\ pc' = "execute"
                  /\ UNCHANGED jobs
    /\ UNCHANGED <<store, idx, snapshot>>
    /\ UNCHANGED <<listenerVars, coreVars, libVars>>

\* lines 360-376: run the partitioner container and set the job's step
RunPartitioner ==
    /\ pc = "execute"
    /\ \E o \in RunOutcomes :
         LET e == ExecutePartitionerContainer(o)
         IN  /\ log' = Append(log, Event("RUN", jobs[idx].job_id, o, None))
             /\ IF e.raised
                THEN Raise("RuntimeError")
                ELSE /\ jobs' = [jobs EXCEPT ![idx] =
                                    OnResult(@, e.result, frame.part_dataset_name,
                                             frame.part_dataset_data_id)]
                     /\ pc' = "save"
    /\ UNCHANGED <<store, idx, snapshot, frame>>
    /\ UNCHANGED <<listenerVars, coreVars, libVars>>

\* lines 377-382: save the job; a failed save is passed over.  The locals of
\* the try block are dead from here on.
Save ==
    /\ pc = "save"
    /\ \E ok \in BOOLEAN :
         /\ store' = SaveJob(store, jobs[idx], ok)
         /\ log' = Append(log, Event("SAVE", jobs[idx].job_id,
                                     IF ok THEN "ok" ELSE "raised", None))
         /\ pc' = AfterSave(ok, idx).pc
         /\ idx' = AfterSave(ok, idx).idx
    /\ frame' = EmptyFrame
    /\ UNCHANGED <<jobs, snapshot>>
    /\ UNCHANGED <<listenerVars, coreVars, libVars>>

\* line 383: all jobs done, await asyncio.sleep(5)
EndPass ==
    /\ pc = "for"
    /\ idx > Len(jobs)
    /\ pc' = "sleep"
    /\ UNCHANGED <<store, jobs, idx, snapshot, frame, log>>
    /\ UNCHANGED <<listenerVars, coreVars, libVars>>

\* lines 383, 341: the sleep is over, the next pass starts
WakeUp ==
    /\ pc = "sleep"
    /\ pc' = "poll"
    /\ UNCHANGED <<store, jobs, idx, snapshot, frame, log>>
    /\ UNCHANGED <<listenerVars, coreVars, libVars>>

NextLoop ==
    \/ StartPass
    \/ EnumerateRaises
    \/ SkipJob
    \/ PickUpJob
    \/ LookupReturns
    \/ CreateReturns
    \/ RunPartitioner
    \/ Save
    \/ EndPass
    \/ WakeUp

InitLoop ==
    /\ store \in [JobIds -> UNION { InitialJobs(j) : j \in JobIds }]
    /\ \A j \in JobIds : store[j].job_id = j
    /\ pc = "poll"
    /\ jobs = <<>>
    /\ idx = 1
    /\ snapshot = <<>>
    /\ frame = EmptyFrame
    /\ log = <<>>

(***************************************************************************)
(* listener and _async_process_request                                     *)
(***************************************************************************)
Message(kind, num_partitions, hydrofabric_data_id, hydrofabric_uid) ==
    [kind |-> kind, num_partitions |-> num_partitions,
     hydrofabric_data_id |-> hydrofabric_data_id, hydrofabric_uid |-> hydrofabric_uid]

NoMessage == Message(None, 0, None, None)

\* What a client may send: text that is not JSON, JSON that is no partition
\* request, and serialized partition requests.
Messages ==
    { Message("text", 0, None, None), Message("json", 0, None, None),
      Message("request", 2, "d1", "u1"), Message("request", 4, "d2", "u2") }

RECURSIVE SeqsUpTo(_, _)
SeqsUpTo(S, n) ==
    IF n = 0 THEN {<<>>}
    ELSE SeqsUpTo(S, n - 1)
         \cup { Append(q, m) : q \in { p \in SeqsUpTo(S, n - 1) : Len(p) = n - 1 }, m \in S }

\* what a client may send on one connection
Inboxes == SeqsUpTo(Messages, MaxMessages)

EmptyLFrame ==
    [message |-> NoMessage, hydrofabric_dataset_name |-> None, dataset_name |-> None,
     partition_dataset_name |-> None, partition_dataset_data_id |-> None]

Response(type, success, reason, message, dataset_name, data_id) ==
    [type |-> type, success |-> success, reason |-> reason, message |-> message,
     dataset_name |-> dataset_name, data_id |-> data_id]

\* line 323
InvalidMessageResponse ==
    Response("InvalidMessageResponse", FALSE, "Invalid Message", "", None, None)

\* lines 145, 155, 169: PartitionResponse(success=False, reason=..., message=...)
FailureResponse(reason, message) ==
    Response("PartitionResponse", FALSE, reason, message, None, None)

\* PartitionResponse.factory_create(dataset_name, dataset_data_id, reason): the
\* response that reports the new dataset.  A successful response carries the
\* new dataset's name and id, so the response is a success when it has an id.
FactoryCreate(dataset_name, dataset_data_id, reason) ==
    Response("PartitionResponse", dataset_data_id /= None, reason, "", dataset_name,
             dataset_data_id)

\* PartitionRequest.factory_init_from_deserialized_json(json.loads(message)):
\* the request, or None for JSON that is not one
IsRequest(message) == message.kind = "request"

\* line 168: _async_process_request handles RuntimeError only
CaughtInProcessRequest(error) == error = "RuntimeError"

\* lines 330-335: the errors listener handles (and then ends normally)
CaughtInListener(error) == error \in {"TypeError", "ConnectionClosed", "CancelledError"}

\* lines 140-169: how a round trip that raised error ends the listener: with a
\* failure response, silently, or with the error leaving listener
RoundTripRaised(error) ==
    IF CaughtInProcessRequest(error)
    THEN \* e.__cause__ is None for an error that was not chained
         /\ sent' = Append(sent, FailureResponse("NoneType", error))
         /\ lpc' = "done"
    ELSE /\ lpc' = IF CaughtInListener(error) THEN "done" ELSE "raised"
         /\ UNCHANGED sent

\* websockets.serve (websocket_interface.py line 148): a client connects and
\* the server starts listener for the connection
Connect ==
    /\ lpc \in {"idle", "done", "raised"}
    /\ inbox' \in Inboxes
    /\ lpc' = "recv"
    /\ lframe' = EmptyLFrame
    /\ sent' = <<>>
    /\ rlog' = <<>>
    /\ UNCHANGED <<loopVars, coreVars, libVars>>

\* line 318 with lines 332-333: the client closed the connection without
\* sending anything
RecvClosed ==
    /\ lpc = "recv"
    /\ inbox = <<>>
    /\ lpc' = "done"
    /\ UNCHANGED <<lframe, inbox, sent, rlog>>
    /\ UNCHANGED <<loopVars, coreVars, libVars>>

\* lines 318-319: the message is not JSON; json.loads raises a ValueError,
\* which no handler of listener matches
RecvNotJson ==
    /\ lpc = "recv"
    /\ inbox /= <<>>
    /\ Head(inbox).kind = "text"
    /\ inbox' = Tail(inbox)
    /\ lframe' = [lframe EXCEPT !.message = Head(inbox)]
    /\ lpc' = "raised"
    /\ UNCHANGED <<sent, rlog>>
    /\ UNCHANGED <<loopVars, coreVars, libVars>>

\* lines 318-325, 330-331: JSON that is no request is answered with an
\* InvalidMessageResponse; the TypeError raised next is handled
RecvInvalid ==
    /\ lpc = "recv"
    /\ inbox /= <<>>
    /\ Head(inbox).kind /= "text"
    /\ ~IsRequest(Head(inbox))
    /\ inbox' = Tail(inbox)
    /\ lframe' = [lframe EXCEPT !.message = Head(inbox)]
    /\ sent' = Append(sent, InvalidMessageResponse)
    /\ lpc' = "done"
    /\ UNCHANGED rlog
    /\ UNCHANGED <<loopVars, coreVars, libVars>>

\* lines 318-319, 327, 142, 111-117: a request; the SEARCH request is sent
RecvRequest ==
    /\ lpc = "recv"
    /\ inbox /= <<>>
    /\ IsRequest(Head(inbox))
    /\ inbox' = Tail(inbox)
    /\ lframe' = [lframe EXCEPT !.message = Head(inbox)]
    /\ rlog' = <<Event("SEARCH", 0, "pending", None)>>
    /\ lpc' = "lookup"
    /\ UNCHANGED sent
    /\ UNCHANGED <<loopVars, coreVars, libVars>>

\* lines 117-118, 142-153, 87-90: the SEARCH response arrives
LLookupReturns ==
    /\ lpc = "lookup"
    /\ \E r \in SearchOutcomes :
         LET name == IF r.success THEN r.dataset_name ELSE None
         IN  IF r.raised /= None
             THEN /\ RoundTripRaised(r.raised)
                  /\ rlog' = Resolve(rlog, "raised", None)
                  /\ UNCHANGED lframe
             ELSE IF name = None
             THEN /\ sent' = Append(sent,
                                    FailureResponse("Could Not Find Hydrofabric Dataset", ""))
                  /\ lpc' = "done"
                  /\ rlog' = Resolve(rlog, "none", None)
                  /\ UNCHANGED lframe
             ELSE \E u \in Uuids :
                  /\ lframe' = [lframe EXCEPT !.hydrofabric_dataset_name = name,
                                              !.dataset_name = NewDatasetName(u)]
                  /\ rlog' = Append(Resolve(rlog, "ok", None),
                                    Event("CREATE", 0, "pending", NewDatasetName(u)))
                  /\ lpc' = "create"
                  /\ UNCHANGED sent
    /\ UNCHANGED inbox
    /\ UNCHANGED <<loopVars, coreVars, libVars>>

\* lines 90-91, 153-155: the CREATE response arrives
LCreateReturns ==
    /\ lpc = "create"
    /\ \E r \in CreateOutcomes :
         IF r.raised /= None
         THEN /\ RoundTripRaised(r.raised)
              /\ rlog' = Resolve(rlog, "raised", None)
              /\ UNCHANGED lframe
         ELSE IF ~r.success
         THEN /\ sent' = Append(sent, FailureResponse("Dataset Create Failed", ""))
              /\ lpc' = "done"
              /\ rlog' = Resolve(rlog, "none", None)
              /\ UNCHANGED lframe
         ELSE /\ lframe' = [lframe EXCEPT !.partition_dataset_name = lframe.dataset_name,
                                          !.partition_dataset_data_id = r.data_id]
              /\ rlog' = Resolve(rlog, IF r.data_id = None THEN "no_data_id" ELSE "ok",
                                 r.data_id)
              /\ lpc' = "execute"
              /\ UNCHANGED sent
    /\ UNCHANGED inbox
    /\ UNCHANGED <<loopVars, coreVars, libVars>>

\* variant of LRunPartitioner: the outcome of the run is written to a job
LRunPartitionerMarksJob ==
    /\ lpc = "execute"
    /\ lpc' = "done"
    /\ store' = [store EXCEPT ![1].status_step = PARTITIONING_FAILED]
    /\ UNCHANGED <<pc, jobs, idx, snapshot, frame, log>>
    /\ UNCHANGED <<lframe, inbox, sent, rlog>>
    /\ UNCHANGED <<coreVars, libVars>>

\* lines 157-169, 328: run the partitioner container and send the response
LRunPartitioner ==
    /\ lpc = "execute"
    /\ \E o \in RunOutcomes :
         LET e == ExecutePartitionerContainer(o)
         IN  /\ rlog' = Append(rlog, Event("RUN", 0, o, None))
             /\ IF e.raised
                THEN sent' = Append(sent, FailureResponse(o,
                                "Could not successfully execute partitioner Docker container"))
                ELSE sent' = Append(sent, FactoryCreate(lframe.partition_dataset_name,
                                                        lframe.partition_dataset_data_id,
                                                        "Partitioning Complete"))
    /\ lpc' = "done"
    /\ UNCHANGED <<lframe, inbox>>
    /\ UNCHANGED <<loopVars, coreVars, libVars>>

NextListener ==
    \/ Connect
    \/ RecvClosed
    \/ RecvNotJson
    \/ RecvInvalid
    \/ RecvRequest
    \/ LLookupReturns
    \/ LCreateReturns
    \/ LRunPartitioner

InitListener ==
    /\ lpc = "idle"
    /\ lframe = EmptyLFrame
    /\ inbox = <<>>
    /\ sent = <<>>
    /\ rlog = <<>>

(***************************************************************************)
(* WebSocketInterface: the event loop, its tasks, run and shutdown          *)
(***************************************************************************)
\* self.server, the coroutine websockets.serve returned (line 148), and the
\* task run_until_complete wraps it in
Server == 0

\* the coroutines handed to add_async_task, and the tasks created for them
BgIds == 1..MaxTasks

\* the tasks created for shutdown() by a signal handler (line 126) or by
\* handle_exception (line 251)
ShutdownIds == (MaxTasks + 1)..(MaxTasks + MaxShutdowns)

TaskIds == {Server} \cup BgIds \cup ShutdownIds

\* line 123
Signals == {"SIGHUP", "SIGTERM", "SIGINT"}

\* asyncio.all_tasks(): the tasks of the loop that are not done
Alive(ts, t) == ts[t] \in {"ready", "cancelling"}

AllTasks(ts) == { t \in TaskIds : Alive(ts, t) }

\* the loop is running: run_until_complete (line 327) or run_forever (line 330)
Running == phase \in {"starting", "forever"}

NoShutdown == [pc |-> "no", targets |-> {}]

NoTrigger == [task |-> Server, by |-> "none"]

NoQuery == [index |-> 0, len |-> 0, result |-> "unasked", task |-> Server]

Range(q) == { q[k] : k \in 1..Len(q) }

\* variant of SchedulesNow: a task is created at once when several are scheduled
SchedulesNowWhenSeveral(sched) == Len(sched) > 1

\* line 176: if len(self._scheduled_tasks) > 0
SchedulesNow(sched) == Len(sched) > 0

\* the coroutine registered next: coroutines are numbered as they are registered
NextCoro == Cardinality(Range(requested) \ {Server}) + 1

\* lines 173-178: add_async_task(coro), coro being registered for the first time
AddAsyncTask(c) ==
    /\ c \in BgIds
    /\ c = NextCoro
    /\ \/ phase = "init"
       \/ phase = "starting" /\ \E t \in BgIds : tstate[t] = "ready"
       \/ phase = "forever"
    /\ requested' = Append(requested, c)
    /\ ret' = [ret EXCEPT ![c] = Len(requested)]
    /\ IF SchedulesNow(scheduled)
       THEN /\ scheduled' = Append(scheduled, c)
            /\ tstate' = [tstate EXCEPT ![c] = "ready"]
            /\ order' = Append(order, c)
       ELSE UNCHANGED <<scheduled, tstate, order>>
    /\ UNCHANGED <<phase, sd, trigger, got, closed>>
    /\ UNCHANGED <<loopVars, listenerVars, libVars>>

\* variant of RunExit: loop.close() follows run_forever() outside a finally
RunExitClosesOnReturn(raised) ==
    /\ phase' = "stopped"
    /\ closed' = IF raised THEN closed ELSE closed + 1

\* lines 331-333: run() leaves its try block, by the return of run_forever or
\* with the error raised in it; the finally clause closes the loop
RunExit(raised) ==
    /\ phase' = "stopped"
    /\ closed' = closed + 1

\* variant of RunOrder: the accept task is created first
RunOrderAcceptFirst(req) == <<Server>> \o req

\* lines 321-327: the order in which run() creates the tasks
RunOrder(req) == req \o <<Server>>

\* lines 319-327: run() up to the point where run_until_complete drives the loop
Run ==
    /\ phase = "init"
    /\ order' = order \o RunOrder(requested)
    /\ scheduled' = scheduled \o requested
    /\ requested' = Append(requested, Server)
    /\ tstate' = [t \in TaskIds |->
                    IF t \in Range(requested) \cup {Server} THEN "ready" ELSE tstate[t]]
    /\ phase' = "starting"
    /\ UNCHANGED <<ret, sd, trigger, got, closed>>
    /\ UNCHANGED <<loopVars, listenerVars, libVars>>

\* lines 321-322, 331-332: create_task raises for the k-th registered object,
\* which is no coroutine (TypeError: a coroutine was expected); the tasks
\* created before it stay scheduled, the server is not started and run()
\* closes the loop
RunRaises(k) ==
    /\ phase = "init"
    /\ k \in 1..Len(requested)
    /\ order' = order \o SubSeq(requested, 1, k - 1)
    /\ scheduled' = scheduled \o SubSeq(requested, 1, k - 1)
    /\ tstate' = [t \in TaskIds |->
                    IF t \in Range(SubSeq(requested, 1, k - 1)) THEN "ready" ELSE tstate[t]]
    /\ RunExit(TRUE)
    /\ UNCHANGED <<requested, ret, sd, trigger, got>>
    /\ UNCHANGED <<loopVars, listenerVars, libVars>>

\* lines 327, 330: the server is started; run_until_complete returns it, it is
\* appended to the scheduled list and run_forever drives the loop
ServerStarted ==
    /\ phase = "starting"
    /\ tstate[Server] = "ready"
    /\ tstate' = [tstate EXCEPT ![Server] = "finished"]
    /\ scheduled' = Append(scheduled, Server)
    /\ phase' = "forever"
    /\ UNCHANGED <<requested, order, ret, sd, trigger, got, closed>>
    /\ UNCHANGED <<loopVars, listenerVars, libVars>>

\* lines 327, 331-332: starting the server fails; run_until_complete raises and
\* run() closes the loop
StartRaises ==
    /\ phase = "starting"
    /\ tstate[Server] = "ready"
    /\ tstate' = [tstate EXCEPT ![Server] = "failed"]
    /\ RunExit(TRUE)
    /\ UNCHANGED <<requested, scheduled, order, ret, sd, trigger, got>>
    /\ UNCHANGED <<loopVars, listenerVars, libVars>>

\* lines 327, 331-332: the accept task is cancelled while the server is being
\* started; run_until_complete raises CancelledError and run() closes the loop
AcceptCancelled ==
    /\ phase = "starting"
    /\ tstate[Server] = "cancelling"
    /\ tstate' = [tstate EXCEPT ![Server] = "cancelled"]
    /\ RunExit(TRUE)
    /\ UNCHANGED <<requested, scheduled, order, ret, sd, trigger, got>>
    /\ UNCHANGED <<loopVars, listenerVars, libVars>>

\* a task created for a registered coroutine returns
TaskFinishes(t) ==
    /\ Running
    /\ t \in BgIds
    /\ tstate[t] = "ready"
    /\ sd[t].pc /= "gather"
    /\ tstate' = [tstate EXCEPT ![t] = "finished"]
    /\ UNCHANGED <<phase, requested, scheduled, order, ret, sd, trigger, got, closed>>
    /\ UNCHANGED <<loopVars, listenerVars, libVars>>

\* a task created for a registered coroutine raises: the exception is kept in
\* the Task object, which _scheduled_tasks (lines 177, 322) refers to for as
\* long as the service lives, so the loop never reports it to its handler
TaskRaises(t) ==
    /\ Running
    /\ t \in BgIds
    /\ tstate[t] = "ready"
    /\ sd[t].pc /= "gather"
    /\ tstate' = [tstate EXCEPT ![t] = "failed"]
    /\ UNCHANGED <<phase, requested, scheduled, order, ret, sd, trigger, got, closed>>
    /\ UNCHANGED <<loopVars, listenerVars, libVars>>

\* the shutdown task the loop creates next
NextShutdownId == CHOOSE s \in ShutdownIds :
                    /\ tstate[s] = "none"
                    /\ \A r \in ShutdownIds : r < s => tstate[r] /= "none"

\* variant of Signal: the handler notes the signal and creates no task
SignalLogsOnly(sig) ==
    /\ Running
    /\ sig \in Signals
    /\ \E s \in ShutdownIds : tstate[s] = "none"
    /\ trigger' = [task |-> NextShutdownId, by |-> sig]
    /\ UNCHANGED <<phase, requested, scheduled, tstate, order, ret, sd, got, closed>>
    /\ UNCHANGED <<loopVars, listenerVars, libVars>>

\* line 126: a signal is delivered; its handler creates a task for
\* shutdown(shutdown_signal=s)
Signal(sig) ==
    /\ Running
    /\ sig \in Signals
    /\ \E s \in ShutdownIds : tstate[s] = "none"
    /\ tstate' = [tstate EXCEPT ![NextShutdownId] = "ready"]
    /\ trigger' = [task |-> NextShutdownId, by |-> sig]
    /\ UNCHANGED <<phase, requested, scheduled, order, ret, sd, got, closed>>
    /\ UNCHANGED <<loopVars, listenerVars, libVars>>

\* lines 129, 247-251: the loop calls its exception handler, which creates a
\* task for shutdown().  The loop does so for an error in one of its callbacks
\* and for an exception of a task that nothing refers to any more.
HandleException ==
    /\ Running
    /\ \E s \in ShutdownIds : tstate[s] = "none"
    /\ tstate' = [tstate EXCEPT ![NextShutdownId] = "ready"]
    /\ trigger' = [task |-> NextShutdownId, by |-> "exception"]
    /\ UNCHANGED <<phase, requested, scheduled, order, ret, sd, got, closed>>
    /\ UNCHANGED <<loopVars, listenerVars, libVars>>

\* variant of CancelTargets: the task that runs shutdown is cancelled as well
CancelTargetsAll(ts, me) == AllTasks(ts)

\* line 345: every task of the loop that is not done, but the current task
CancelTargets(ts, me) == AllTasks(ts) \ {me}

\* lines 345-351: shutdown() run by task me, up to the await of gather
ShutdownCancels(me) ==
    LET tasks == CancelTargets(tstate, me)
    IN  /\ tstate' = [t \in TaskIds |-> IF t \in tasks THEN "cancelling" ELSE tstate[t]]
        /\ sd' = [sd EXCEPT ![me] = [pc |-> "gather", targets |-> tasks]]

\* a task created for a registered coroutine awaits self.shutdown()
TaskCallsShutdown(t) ==
    /\ Running
    /\ t \in BgIds
    /\ tstate[t] = "ready"
    /\ sd[t].pc = "no"
    /\ ShutdownCancels(t)
    /\ UNCHANGED <<phase, requested, scheduled, order, ret, trigger, got, closed>>
    /\ UNCHANGED <<loopVars, listenerVars, libVars>>

\* a shutdown task gets to run
ShutdownStarts(s) ==
    /\ Running
    /\ s \in ShutdownIds
    /\ tstate[s] = "ready"
    /\ sd[s].pc = "no"
    /\ ShutdownCancels(s)
    /\ UNCHANGED <<phase, requested, scheduled, order, ret, trigger, got, closed>>
    /\ UNCHANGED <<loopVars, listenerVars, libVars>>

\* How a cancelled task ends at the suspension point where CancelledError is
\* thrown into it: cancelled, or with another exception raised on the way out.
\* shutdown() itself has no handler: its task ends cancelled.
CancelOutcomes(t) ==
    IF t \in ShutdownIds THEN {"cancelled"} ELSE {"cancelled", "failed"}

\* line 348: the cancellation requested for task t reaches it
CancelLands(t) ==
    /\ Running
    /\ t \in BgIds \cup ShutdownIds
    /\ tstate[t] = "cancelling"
    /\ \E outcome \in CancelOutcomes(t) : tstate' = [tstate EXCEPT ![t] = outcome]
    /\ sd' = IF sd[t].pc = "gather" THEN [sd EXCEPT ![t].pc = "aborted"] ELSE sd
    /\ UNCHANGED <<phase, requested, scheduled, order, ret, trigger, got, closed>>
    /\ UNCHANGED <<loopVars, listenerVars, libVars>>

\* variant of Gather: gather(*tasks), which raises the first exception of a task
GatherPropagates(ts, tasks) ==
    IF \E t \in tasks : ts[t] = "failed" THEN "raise"
    ELSE IF \E t \in tasks : Alive(ts, t) THEN "wait"
    ELSE "results"

\* line 351: await asyncio.gather(*tasks, return_exceptions=True)
Gather(ts, tasks) == IF \E t \in tasks : Alive(ts, t) THEN "wait" ELSE "results"

\* lines 351-352: gather returns to the task running shutdown, which stops the
\* loop; run_forever returns and run() closes the loop (lines 330-332)
ShutdownResumes(me) ==
    /\ Running
    /\ me \in BgIds \cup ShutdownIds
    /\ sd[me].pc = "gather"
    /\ tstate[me] = "ready"
    /\ Gather(tstate, sd[me].targets) /= "wait"
    /\ IF Gather(tstate, sd[me].targets) = "raise"
       THEN /\ tstate' = [tstate EXCEPT ![me] = "failed"]
            /\ sd' = [sd EXCEPT ![me].pc = "aborted"]
            /\ UNCHANGED <<phase, closed>>
       ELSE /\ tstate' = [tstate EXCEPT ![me] =
                            IF me \in ShutdownIds THEN "finished" ELSE tstate[me]]
            /\ sd' = [sd EXCEPT ![me].pc = "done"]
            /\ RunExit(FALSE)
    /\ UNCHANGED <<requested, scheduled, order, ret, trigger, got>>
    /\ UNCHANGED <<loopVars, listenerVars, libVars>>

\* the indexes get_task_object is asked for
Indexes == (0 - MaxIndex)..MaxIndex

\* lines 244-245: get_task_object(index).  A list of length n is subscripted
\* with -n .. n-1, a negative index counting from the end; any other index
\* raises IndexError.  The method returns None when the if is not taken.
GetTaskObject(sched, index) ==
    IF Len(sched) > index
    THEN IF index >= 0 THEN [result |-> "task", task |-> sched[index + 1]]
         ELSE IF index >= 0 - Len(sched)
         THEN [result |-> "task", task |-> sched[Len(sched) + index + 1]]
         ELSE [result |-> "IndexError", task |-> Server]
    ELSE [result |-> "None", task |-> Server]

\* a caller asks for the task at an index
Query(index) ==
    /\ index \in Indexes
    /\ got' = [index |-> index, len |-> Len(scheduled),
               result |-> GetTaskObject(scheduled, index).result,
               task |-> GetTaskObject(scheduled, index).task]
    /\ UNCHANGED <<phase, requested, scheduled, tstate, order, ret, sd, trigger, closed>>
    /\ UNCHANGED <<loopVars, listenerVars, libVars>>

NextCore ==
    \/ \E c \in BgIds : AddAsyncTask(c)
    \/ Run
    \/ \E k \in 1..MaxTasks : RunRaises(k)
    \/ ServerStarted
    \/ StartRaises
    \/ AcceptCancelled
    \/ \E t \in BgIds : TaskFinishes(t)
    \/ \E t \in BgIds : TaskRaises(t)
    \/ \E sig \in Signals : Signal(sig)
    \/ HandleException
    \/ \E t \in BgIds : TaskCallsShutdown(t)
    \/ \E s \in ShutdownIds : ShutdownStarts(s)
    \/ \E t \in TaskIds : CancelLands(t)
    \/ \E t \in TaskIds : ShutdownResumes(t)

\* registration, start and lookup of tasks
NextRegistry ==
    \/ \E c \in BgIds : AddAsyncTask(c)
    \/ Run
    \/ ServerStarted
    \/ \E t \in BgIds : TaskFinishes(t)
    \/ \E i \in Indexes : Query(i)

\* the steps the event loop takes on its own once they are possible
CoreProgress ==
    \/ ServerStarted
    \/ AcceptCancelled
    \/ \E s \in ShutdownIds : ShutdownStarts(s)
    \/ \E t \in TaskIds : CancelLands(t)
    \/ \E t \in TaskIds : ShutdownResumes(t)

\* lines 116-150: the service after __init__
InitCore ==
    /\ phase = "init"
    /\ requested = <<>>
    /\ scheduled = <<>>
    /\ tstate = [t \in TaskIds |-> "none"]
    /\ order = <<>>
    /\ ret = [c \in BgIds |-> 0 - 1]
    /\ sd = [t \in TaskIds |-> NoShutdown]
    /\ trigger = NoTrigger
    /\ got = NoQuery
    /\ closed = 0

\* the partitioner service as __main__.main() brings it up: one registered
\* task, manage_job_partitioning, and the server started
CoreServing ==
    /\ phase = "forever"
    /\ requested = <<1, Server>>
    /\ scheduled = <<1, Server>>
    /\ tstate = [t \in TaskIds |-> IF t = 1 THEN "ready"
                                   ELSE IF t = Server THEN "finished" ELSE "none"]
    /\ order = <<1, Server>>
    /\ ret = [c \in BgIds |-> IF c = 1 THEN 0 ELSE 0 - 1]
    /\ sd = [t \in TaskIds |-> NoShutdown]
    /\ trigger = NoTrigger
    /\ got = NoQuery
    /\ closed = 0

(***************************************************************************)
(* The communication library: request kinds and messages                   *)
(***************************************************************************)
\* no call of the library made yet
NoCall == [op |-> "none", n |-> 0]

\* a behaviour of the message library is one call of it
Idle == call = NoCall

\* the outcome of a constructor or factory: an object, or the error raised
NoObject == [raised |-> None, none |-> TRUE]

Raised(error) == [raised |-> error, none |-> TRUE]

Object(obj) == [raised |-> None, none |-> FALSE, obj |-> obj]

\* something optional: <<>> when it is absent, <<x>> when it is x
Optional(S) == {<<>>} \cup { <<x>> : x \in S }

\* MessageEventType, as far as the library refers to its members
MessageEventType ==
    {"SESSION_INIT", "MODEL_EXEC_REQUEST", "SCHEDULER_REQUEST", "DATASET_MANAGEMENT",
     "INVALID"}

\* what a validator's validate(data) returns: (True, None) or (False, error)
Accepted == [ok |-> TRUE, error |-> None]

Rejected == [ok |-> FALSE, error |-> "ValidationError"]

ValidatorOutcomes == {Accepted, Rejected}

\* The envelopes handed to parse_request_type, told apart by what the
\* session-init validator and the model-execution validator say of them.
Envelopes == [session_init : ValidatorOutcomes, model_exec : ValidatorOutcomes]

\* lines 289-292: errors, one None entry per type but INVALID
NoErrors == [t \in MessageEventType \ {"INVALID"} |-> None]

\* variant of ParseRequestType: the model-execution validator runs first
ParseRequestTypeModelFirst(data, check_for_auth) ==
    LET errors1 == [NoErrors EXCEPT !["MODEL_EXEC_REQUEST"] = data.model_exec.error]
        errors2 == [errors1 EXCEPT !["SESSION_INIT"] = data.session_init.error]
    IN  IF data.model_exec.ok
        THEN [type |-> "MODEL_EXEC_REQUEST", errors |-> errors1]
        ELSE IF check_for_auth /\ data.session_init.ok
        THEN [type |-> "SESSION_INIT", errors |-> errors2]
        ELSE [type |-> "INVALID", errors |-> IF check_for_auth THEN errors2 ELSE errors1]

\* lines 289-305: parse_request_type(data, check_for_auth)
ParseRequestType(data, check_for_auth) ==
    LET errors1 == IF check_for_auth
                   THEN [NoErrors EXCEPT !["SESSION_INIT"] = data.session_init.error]
                   ELSE NoErrors
        errors2 == [errors1 EXCEPT !["MODEL_EXEC_REQUEST"] = data.model_exec.error]
    IN  IF check_for_auth /\ data.session_init.ok
        THEN [type |-> "SESSION_INIT", errors |-> errors1]
        ELSE IF data.model_exec.ok
        THEN [type |-> "MODEL_EXEC_REQUEST", errors |-> errors2]
        ELSE [type |-> "INVALID", errors |-> errors2]

\* a caller parses the kind of an envelope
CallParseRequestType ==
    /\ Idle
    /\ \E data \in Envelopes, check_for_auth \in BOOLEAN :
         /\ call' = [op |-> "parse_request_type", data |-> data,
                     check_for_auth |-> check_for_auth]
         /\ out' = ParseRequestType(data, check_for_auth)
    /\ UNCHANGED <<loopVars, listenerVars, coreVars, sessions, bound>>

(***************************************************************************)
(* ManagementAction and DatasetManagementMessage                           *)
(***************************************************************************)
\* lines 12-27: the members of ManagementAction in the order they are
\* declared, each with its value (uid, requires_name, requires_category)
ManagementAction ==
    << [name |-> "UNKNOWN", uid |-> 0 - 1, requires_name |-> FALSE, requires_category |-> FALSE],
       [name |-> "CREATE", uid |-> 1, requires_name |-> TRUE, requires_category |-> TRUE],
       [name |-> "ADD_DATA", uid |-> 2, requires_name |-> TRUE, requires_category |-> FALSE],
       [name |-> "REMOVE_DATA", uid |-> 3, requires_name |-> TRUE, requires_category |-> FALSE],
       [name |-> "DELETE", uid |-> 4, requires_name |-> TRUE, requires_category |-> FALSE],
       [name |-> "SEARCH", uid |-> 5, requires_name |-> FALSE, requires_category |-> TRUE],
       [name |-> "QUERY", uid |-> 6, requires_name |-> TRUE, requires_category |-> FALSE],
       [name |-> "CLOSE_AWAITING", uid |-> 7, requires_name |-> FALSE,
        requires_category |-> FALSE] >>

ManagementActions == Range(ManagementAction)

\* the member of a name
Member(name) == CHOOSE a \in ManagementActions : a.name = name

\* A str is a sequence of characters.  The letters, small and capital:
LowerCase ==
    <<"a", "b", "c", "d", "e", "f", "g", "h", "i", "j", "k", "l", "m", "n", "o", "p",
      "q", "r", "s", "t", "u", "v", "w", "x", "y", "z">>

UpperCase ==
    <<"A", "B", "C", "D", "E", "F", "G", "H", "I", "J", "K", "L", "M", "N", "O", "P",
      "Q", "R", "S", "T", "U", "V", "W", "X", "Y", "Z">>

\* the characters str.strip() removes
Whitespace == {" ", "\t", "\n"}

\* str.upper() and str.lower(), character by character
Upper(c) ==
    IF \E i \in 1..Len(LowerCase) : LowerCase[i] = c
    THEN UpperCase[CHOOSE i \in 1..Len(LowerCase) : LowerCase[i] = c]
    ELSE c

Lower(c) ==
    IF \E i \in 1..Len(UpperCase) : UpperCase[i] = c
    THEN LowerCase[CHOOSE i \in 1..Len(UpperCase) : UpperCase[i] = c]
    ELSE c

StrUpper(str) == [i \in 1..Len(str) |-> Upper(str[i])]

StrLower(str) == [i \in 1..Len(str) |-> Lower(str[i])]

\* str.strip(): the str without its leading and trailing whitespace
RECURSIVE LStrip(_)
LStrip(str) ==
    IF str /= <<>> /\ Head(str) \in Whitespace THEN LStrip(Tail(str)) ELSE str

RECURSIVE RStrip(_)
RStrip(str) ==
    IF str /= <<>> /\ str[Len(str)] \in Whitespace
    THEN RStrip(SubSeq(str, 1, Len(str) - 1))
    ELSE str

Strip(str) == RStrip(LStrip(str))

\* value.name of the members of ManagementAction, spelled out
Spelling ==
    [n \in { a.name : a \in ManagementActions } |->
        CASE n = "UNKNOWN" -> <<"U", "N", "K", "N", "O", "W", "N">>
          [] n = "CREATE" -> <<"C", "R", "E", "A", "T", "E">>
          [] n = "ADD_DATA" -> <<"A", "D", "D", "_", "D", "A", "T", "A">>
          [] n = "REMOVE_DATA" -> <<"R", "E", "M", "O", "V", "E", "_", "D", "A", "T", "A">>
          [] n = "DELETE" -> <<"D", "E", "L", "E", "T", "E">>
          [] n = "SEARCH" -> <<"S", "E", "A", "R", "C", "H">>
          [] n = "QUERY" -> <<"Q", "U", "E", "R", "Y">>
          [] n = "CLOSE_AWAITING" ->
               <<"C", "L", "O", "S", "E", "_", "A", "W", "A", "I", "T", "I", "N", "G">>]

\* variant of GetForName: the names are compared as they are written
GetForNameCaseSensitive(name_str) ==
    LET cleaned_up_str == Strip(name_str)
        matches == { i \in 1..Len(ManagementAction) :
                       Spelling[ManagementAction[i].name] = cleaned_up_str }
    IN  IF matches = {} THEN Member("UNKNOWN")
        ELSE ManagementAction[CHOOSE i \in matches : \A j \in matches : i <= j]

\* lines 44-48: ManagementAction.get_for_name(name_str): the first member, in
\* the order of declaration, whose name in capitals is the stripped name_str
\* in capitals
GetForName(name_str) ==
    LET cleaned_up_str == StrUpper(Strip(name_str))
        matches == { i \in 1..Len(ManagementAction) :
                       StrUpper(Spelling[ManagementAction[i].name]) = cleaned_up_str }
    IN  IF matches = {} THEN Member("UNKNOWN")
        ELSE ManagementAction[CHOOSE i \in matches : \A j \in matches : i <= j]

\* The strs handed to get_for_name: every name written in capitals, in small
\* letters, capitalised and with the cases alternating, each with up to MaxPad
\* whitespace characters on either side; the same with a character added,
\* with the first character missing and with a space inside; and the empty str.
Capitalised(str) == [i \in 1..Len(str) |-> IF i = 1 THEN Upper(str[i]) ELSE Lower(str[i])]

Alternating(str) == [i \in 1..Len(str) |-> IF i % 2 = 1 THEN Lower(str[i]) ELSE Upper(str[i])]

Spellings ==
    UNION { {Spelling[n], StrLower(Spelling[n]), Capitalised(Spelling[n]),
             Alternating(Spelling[n])} : n \in DOMAIN Spelling }

Misspellings ==
    UNION { {Append(s, "s"), Tail(s), <<Head(s), " ">> \o Tail(s)} : s \in Spellings }

Pads == UNION { [1..k -> Whitespace] : k \in 0..MaxPad }

NameStrs ==
    { l \o s \o r : l \in Pads, r \in Pads, s \in Spellings \cup Misspellings \cup {<<>>} }

\* a caller looks an action up by name
CallGetForName ==
    /\ Idle
    /\ \E name_str \in NameStrs :
         /\ call' = [op |-> "get_for_name", name_str |-> name_str]
         /\ out' = GetForName(name_str)
    /\ UNCHANGED <<loopVars, listenerVars, coreVars, sessions, bound>>

\* An action argument: a member of ManagementAction, or the str a JSON
\* document has under the key action.
ActionArgs ==
    ManagementActions \cup { [str |-> n] : n \in {"CREATE", "SEARCH", "create"} }

IsMember(action) == action \in ManagementActions

\* the values of the optional fields: None, or one value of the field's type
DatasetNames == {None, "dataset-1"}

DataCategories == {None, "CONFIG"}

DataValues == {None, "bytes"}

DataLocations == {None, "location-1"}

\* the data_domain of a message: None, or a DataDomain
DataDomains == {None, "domain-1"}

\* DataDomain.to_dict(): the dict a DataDomain is serialized as
DomainToDict(domain) == CASE domain = "domain-1" -> "dict-of-domain-1"

\* what a JSON document has under the key data_domain: the dict of a
\* DataDomain, or something else
SerializedDomains == {"dict-of-domain-1", "no-domain"}

\* DataDomain.factory_init_from_deserialized_json: the DataDomain of a dict
\* that is one; for anything else it returns None or raises
DomainFromDict(json_obj) ==
    IF json_obj = "dict-of-domain-1" THEN {Object("domain-1")}
    ELSE {NoObject, Raised("ValueError")}

\* lines 158-165: the attributes of a message just constructed
NewMessage(action, dataset_name, is_read_only_dataset, category, data, data_location, is_pending_data) ==
    [action |-> action, dataset_name |-> dataset_name,
     is_read_only_dataset |-> is_read_only_dataset, category |-> category,
     domain |-> None, data |-> data, data_location |-> data_location,
     is_pending_data |-> is_pending_data]

\* variant of DatasetManagementMessage: only the dataset name is checked
DatasetManagementMessageNameOnly(action, dataset_name, is_read_only_dataset, category, data, data_location, is_pending_data) ==
    IF dataset_name = None /\ ~IsMember(action) THEN Raised("AttributeError")
    ELSE IF dataset_name = None /\ action.requires_name THEN Raised("RuntimeError")
    ELSE Object(NewMessage(action, dataset_name, is_read_only_dataset, category, data,
                           data_location, is_pending_data))

\* lines 151-165: DatasetManagementMessage.__init__.  A str given as action
\* has no requires_dataset_name or requires_data_category attribute; the
\* attribute is read only when the name, or the category, is None.
DatasetManagementMessage(action, dataset_name, is_read_only_dataset, category, data, data_location, is_pending_data) ==
    IF dataset_name = None /\ ~IsMember(action) THEN Raised("AttributeError")
    ELSE IF dataset_name = None /\ action.requires_name THEN Raised("RuntimeError")
    ELSE IF category = None /\ ~IsMember(action) THEN Raised("AttributeError")
    ELSE IF category = None /\ action.requires_category THEN Raised("RuntimeError")
    ELSE Object(NewMessage(action, dataset_name, is_read_only_dataset, category, data,
                           data_location, is_pending_data))

\* a caller constructs a DatasetManagementMessage for a member of ManagementAction
CallDatasetManagementMessage ==
    /\ Idle
    /\ \E action \in ManagementActions, dataset_name \in DatasetNames,
          category \in DataCategories, data \in DataValues,
          data_location \in DataLocations,
          is_read_only_dataset \in BOOLEAN, is_pending_data \in BOOLEAN :
         /\ call' = [op |-> "DatasetManagementMessage", action |-> action,
                     dataset_name |-> dataset_name, category |-> category,
                     data |-> data, data_location |-> data_location,
                     is_read_only_dataset |-> is_read_only_dataset,
                     is_pending_data |-> is_pending_data]
         /\ out' = DatasetManagementMessage(action, dataset_name, is_read_only_dataset,
                                            category, data, data_location,
                                            is_pending_data)
    /\ UNCHANGED <<loopVars, listenerVars, coreVars, sessions, bound>>

\* The JSON values handed to factory_init_from_deserialized_json.  A dict is
\* written as a record of its keys, each absent or with a value; has names the
\* keys that "key in json_obj" finds in a value that is no dict: the strs a
\* list holds, the substrings of a str.  None and numbers are not iterable.
JsonDict(items) == [kind |-> "dict", items |-> items, has |-> {}]

NonDicts ==
    {[kind |-> "NoneType", items |-> <<>>, has |-> {}],
     [kind |-> "int", items |-> <<>>, has |-> {}],
     [kind |-> "list", items |-> <<>>, has |-> {}],
     [kind |-> "str", items |-> <<>>, has |-> {}],
     [kind |-> "str", items |-> <<>>, has |-> {"data_location"}]}

\* key in json_obj
Contains(json_obj, key) ==
    CASE json_obj.kind = "dict" -> [raised |-> None, value |-> json_obj.items[key] /= <<>>]
      [] json_obj.kind \in {"list", "str"} -> [raised |-> None, value |-> key \in json_obj.has]
      [] OTHER -> [raised |-> "TypeError", value |-> FALSE]

\* json_obj[key] raises: KeyError for a dict without the key, TypeError for
\* a str key on anything that is no dict
SubscriptRaises(json_obj, key) ==
    IF json_obj.kind = "dict"
    THEN IF json_obj.items[key] /= <<>> THEN None ELSE "KeyError"
    ELSE "TypeError"

\* json_obj[key] if key in json_obj else None, lines 110-113
GetOrNone(json_obj, key) ==
    IF Contains(json_obj, key).raised /= None
    THEN [raised |-> Contains(json_obj, key).raised, value |-> None]
    ELSE IF ~Contains(json_obj, key).value THEN [raised |-> None, value |-> None]
    ELSE [raised |-> SubscriptRaises(json_obj, key),
          value |-> IF json_obj.kind = "dict" THEN json_obj.items[key][1] ELSE None]

\* the dicts handed to DatasetManagementMessage.factory_init_from_deserialized_json
MessageDicts ==
    { JsonDict(items) :
        items \in [action : Optional(ActionArgs), category : Optional(DataCategories),
                   data : Optional(DataValues), data_domain : Optional(SerializedDomains),
                   data_location : Optional(DataLocations),
                   dataset_name : Optional(DatasetNames),
                   pending_data : Optional(BOOLEAN), read_only : Optional(BOOLEAN)] }

\* lines 115-123: the try block of the factory, for a dict json_obj
MessageFromDict(json_obj, dataset_name, category, raw_data, data_loc, domain) ==
    IF \E key \in {"action", "read_only", "pending_data"} :
           SubscriptRaises(json_obj, key) /= None
    THEN NoObject
    ELSE LET obj == DatasetManagementMessage(json_obj.items.action[1], dataset_name,
                                             json_obj.items.read_only[1], category,
                                             raw_data, data_loc,
                                             json_obj.items.pending_data[1])
         IN  IF obj.raised /= None THEN NoObject
             ELSE IF ~Contains(json_obj, "data_domain").value THEN obj
             ELSE IF domain.raised /= None THEN NoObject
             ELSE Object([obj.obj EXCEPT !.domain =
                            IF domain.none THEN None ELSE domain.obj])

\* lines 110-123: DatasetManagementMessage.factory_init_from_deserialized_json.
\* domain is what DataDomain.factory_init_from_deserialized_json does with
\* json_obj['data_domain'].  Lines 110-113 are outside the try block: what
\* they raise leaves the factory.  Inside it, anything that is no dict raises
\* TypeError at json_obj['action'], which line 122 catches.
FactoryInitFromDeserializedJson(json_obj, domain) ==
    LET dataset_name == GetOrNone(json_obj, "dataset_name")
        category == GetOrNone(json_obj, "category")
        raw_data == GetOrNone(json_obj, "data")
        data_loc == GetOrNone(json_obj, "data_location")
    IN  IF dataset_name.raised /= None THEN Raised(dataset_name.raised)
        ELSE IF category.raised /= None THEN Raised(category.raised)
        ELSE IF raw_data.raised /= None THEN Raised(raw_data.raised)
        ELSE IF data_loc.raised /= None THEN Raised(data_loc.raised)
        ELSE IF json_obj.kind /= "dict" THEN NoObject
        ELSE MessageFromDict(json_obj, dataset_name.value, category.value, raw_data.value,
                             data_loc.value, domain)

\* what DataDomain.factory_init_from_deserialized_json is called with and does
DomainOutcomes(json_obj) ==
    IF json_obj.kind = "dict" /\ json_obj.items.data_domain /= <<>>
    THEN DomainFromDict(json_obj.items.data_domain[1])
    ELSE {NoObject}

\* a caller parses a JSON value as a DatasetManagementMessage
CallFactoryInitFromDeserializedJson ==
    /\ Idle
    /\ \E json_obj \in MessageDicts \cup NonDicts :
         \E domain \in DomainOutcomes(json_obj) :
            /\ call' = [op |-> "DatasetManagementMessage.factory_init_from_deserialized_json",
                        json_obj |-> json_obj]
            /\ out' = FactoryInitFromDeserializedJson(json_obj, domain)
    /\ UNCHANGED <<loopVars, listenerVars, coreVars, sessions, bound>>

\* d[key] = value when value is not None, lines 275-284
Present(value) == IF value = None THEN <<>> ELSE <<value>>

\* variant of ToDict: the data location is left out
ToDictDropsLocation(message) ==
    JsonDict([action |-> <<message.action>>, category |-> <<message.category>>,
              read_only |-> <<message.is_read_only_dataset>>,
              pending_data |-> <<message.is_pending_data>>,
              dataset_name |-> Present(message.dataset_name),
              data |-> Present(message.data),
              data_location |-> <<>>,
              data_domain |-> IF message.domain = None THEN <<>>
                              ELSE <<DomainToDict(message.domain)>>])

\* lines 270-285: DatasetManagementMessage.to_dict.  action, category,
\* read_only and pending_data are always written (the category also when it
\* is None), the other keys when their value is not None.
ToDict(message) ==
    JsonDict([action |-> <<message.action>>, category |-> <<message.category>>,
              read_only |-> <<message.is_read_only_dataset>>,
              pending_data |-> <<message.is_pending_data>>,
              dataset_name |-> Present(message.dataset_name),
              data |-> Present(message.data),
              data_location |-> Present(message.data_location),
              data_domain |-> IF message.domain = None THEN <<>>
                              ELSE <<DomainToDict(message.domain)>>])

\* The messages that can be constructed: by __init__, lines 125-165, and
\* then given a data_domain by the setter of line 231.
Messages_DM ==
    { [m.obj EXCEPT !.domain = domain] :
        m \in { r \in { DatasetManagementMessage(action, dataset_name, read_only, category,
                                                  data, data_location, pending) :
                           action \in ActionArgs, dataset_name \in DatasetNames,
                           read_only \in BOOLEAN, category \in DataCategories,
                           data \in DataValues, data_location \in DataLocations,
                           pending \in BOOLEAN } : ~r.none },
        domain \in DataDomains }

\* a message is serialized and the dict parsed again
RoundTripMessage ==
    /\ Idle
    /\ \E message \in Messages_DM :
         \E domain \in DomainOutcomes(ToDict(message)) :
            /\ call' = [op |-> "DatasetManagementMessage.to_dict", message |-> message]
            /\ out' = FactoryInitFromDeserializedJson(ToDict(message), domain)
    /\ UNCHANGED <<loopVars, listenerVars, coreVars, sessions, bound>>

(***************************************************************************)
(* SchedulerRequestMessage and SchedulerRequestResponse                    *)
(***************************************************************************)
\* a ModelExecRequest, the dict its to_dict() returns, and what
\* factory_init_correct_subtype_from_deserialized_json makes of a JSON value:
\* the request of a dict that is one, None for anything else
ModelExecRequests == {"request-1"}

RequestToDict(model_request) == CASE model_request = "request-1" -> "dict-of-request-1"

SerializedRequests == {"dict-of-request-1", "no-request"}

RequestFromDict(json_obj) ==
    IF json_obj = "dict-of-request-1" THEN Object("request-1") ELSE NoObject

\* line 8
DefaultAllocationParadigm == <<"S", "I", "N", "G", "L", "E", "_", "N", "O", "D", "E">>

\* line 58
DefaultCpus == 4

\* line 64
DefaultMemory == 500000

\* cpus and mem: Optional[int], <<>> for None
CpuArgs == Optional({0, DefaultCpus, 8})

MemArgs == Optional({DefaultMemory, 1000000})

\* allocation_paradigm: None, something that is no str, or a str: empty,
\* whitespace only, the default, and a name with whitespace before it
AllocationArgs ==
    {[type |-> "NoneType", value |-> <<>>],
     [type |-> "int", value |-> <<>>],
     [type |-> "str", value |-> <<>>],
     [type |-> "str", value |-> <<" ", "\t">>],
     [type |-> "str", value |-> DefaultAllocationParadigm],
     [type |-> "str", value |-> <<" ", "F", "I", "L", "L", "_", "N", "O", "D", "E", "S">>]}

UserIds == {"user-1"}

\* variant of SchedulerRequestMessage: the given cpus is replaced when it is 0
SchedulerRequestMessageFalsyCpus(model_request, user_id, cpus, mem, allocation_paradigm) ==
    [model_request |-> model_request, user_id |-> user_id,
     cpus_unset |-> (cpus = <<>> \/ cpus = <<0>>),
     cpus |-> IF cpus = <<>> \/ cpus = <<0>> THEN DefaultCpus ELSE cpus[1],
     memory_unset |-> (mem = <<>>),
     memory |-> IF mem = <<>> THEN DefaultMemory ELSE mem[1],
     allocation_paradigm |->
        IF allocation_paradigm.type = "str" /\ Strip(allocation_paradigm.value) /= <<>>
        THEN allocation_paradigm.value
        ELSE DefaultAllocationParadigm]

\* lines 53-71: SchedulerRequestMessage.__init__
SchedulerRequestMessage(model_request, user_id, cpus, mem, allocation_paradigm) ==
    [model_request |-> model_request, user_id |-> user_id,
     cpus_unset |-> (cpus = <<>>),
     cpus |-> IF cpus = <<>> THEN DefaultCpus ELSE cpus[1],
     memory_unset |-> (mem = <<>>),
     memory |-> IF mem = <<>> THEN DefaultMemory ELSE mem[1],
     allocation_paradigm |->
        IF allocation_paradigm.type = "str" /\ Strip(allocation_paradigm.value) /= <<>>
        THEN allocation_paradigm.value
        ELSE DefaultAllocationParadigm]

\* a caller constructs a SchedulerRequestMessage
CallSchedulerRequestMessage ==
    /\ Idle
    /\ \E model_request \in ModelExecRequests, user_id \in UserIds, cpus \in CpuArgs,
          mem \in MemArgs, allocation_paradigm \in AllocationArgs :
         /\ call' = [op |-> "SchedulerRequestMessage", model_request |-> model_request,
                     user_id |-> user_id, cpus |-> cpus, mem |-> mem,
                     allocation_paradigm |-> allocation_paradigm]
         /\ out' = Object(SchedulerRequestMessage(model_request, user_id, cpus, mem,
                                                  allocation_paradigm))
    /\ UNCHANGED <<loopVars, listenerVars, coreVars, sessions, bound>>

\* the dicts handed to SchedulerRequestMessage.factory_init_from_deserialized_json
RequestDicts ==
    { JsonDict(items) :
        items \in [model_request : Optional(SerializedRequests),
                   user_id : Optional(UserIds), cpus : Optional(CpuArgs),
                   mem : Optional(MemArgs), allocation : Optional(AllocationArgs)] }

\* lines 40-48: SchedulerRequestMessage.factory_init_from_deserialized_json;
\* the whole body is inside try ... except: return None
SchedulerRequestFromJson(json_obj) ==
    IF SubscriptRaises(json_obj, "model_request") /= None THEN NoObject
    ELSE IF RequestFromDict(json_obj.items.model_request[1]).none THEN NoObject
    ELSE IF \E key \in {"user_id", "cpus", "mem", "allocation"} :
                SubscriptRaises(json_obj, key) /= None
    THEN NoObject
    ELSE Object(SchedulerRequestMessage(RequestFromDict(json_obj.items.model_request[1]).obj,
                                        json_obj.items.user_id[1], json_obj.items.cpus[1],
                                        json_obj.items.mem[1],
                                        json_obj.items.allocation[1]))

\* a caller parses a JSON value as a SchedulerRequestMessage
CallSchedulerRequestFromJson ==
    /\ Idle
    /\ \E json_obj \in RequestDicts \cup NonDicts :
         /\ call' = [op |-> "SchedulerRequestMessage.factory_init_from_deserialized_json",
                     json_obj |-> json_obj]
         /\ out' = SchedulerRequestFromJson(json_obj)
    /\ UNCHANGED <<loopVars, listenerVars, coreVars, sessions, bound>>

\* lines 93-95: SchedulerRequestMessage.to_dict
RequestToJson(message) ==
    JsonDict([model_request |-> <<RequestToDict(message.model_request)>>,
              user_id |-> <<message.user_id>>,
              cpus |-> << <<message.cpus>> >>,
              mem |-> << <<message.memory>> >>,
              allocation |-> <<[type |-> "str", value |-> message.allocation_paradigm]>>])

\* lines 73-79: SchedulerRequestMessage.__eq__
SchedulerRequestEq(self, other) ==
    /\ self.model_request = other.model_request
    /\ self.cpus = other.cpus
    /\ self.memory = other.memory
    /\ self.user_id = other.user_id
    /\ self.allocation_paradigm = other.allocation_paradigm

\* the messages that can be constructed
SchedulerRequests ==
    { SchedulerRequestMessage(model_request, user_id, cpus, mem, allocation_paradigm) :
        model_request \in ModelExecRequests, user_id \in UserIds, cpus \in CpuArgs,
        mem \in MemArgs, allocation_paradigm \in AllocationArgs }

\* a message is serialized and the dict parsed again
RoundTripRequest ==
    /\ Idle
    /\ \E message \in SchedulerRequests :
         /\ call' = [op |-> "SchedulerRequestMessage.to_dict", message |-> message]
         /\ out' = SchedulerRequestFromJson(RequestToJson(message))
    /\ UNCHANGED <<loopVars, listenerVars, coreVars, sessions, bound>>

\* the sentinel of line 109
NoJobId == -1

\* Response.data of a SchedulerRequestResponse: None, a dict without
\* 'job_id', or a dict with one
StoredIds == {1, 7}

ResponseData == Optional([job_id : Optional(StoredIds)])

\* variant of JobId: the id in data is returned whenever there is one
JobIdFromData(success, data) ==
    IF data /= <<>> /\ data[1].job_id /= <<>> THEN [raised |-> None, value |-> data[1].job_id[1]]
    ELSE [raised |-> None, value |-> NoJobId]

\* lines 104-109: SchedulerRequestResponse.job_id.  self.data['job_id']
\* raises TypeError when data is None and KeyError when the key is missing.
JobId(success, data) ==
    IF success
    THEN IF data = <<>> THEN [raised |-> "TypeError", value |-> NoJobId]
         ELSE IF data[1].job_id = <<>> THEN [raised |-> "KeyError", value |-> NoJobId]
         ELSE [raised |-> None, value |-> data[1].job_id[1]]
    ELSE [raised |-> None, value |-> NoJobId]

\* a caller reads job_id of a response
CallJobId ==
    /\ Idle
    /\ \E success \in BOOLEAN, data \in ResponseData :
         /\ call' = [op |-> "job_id", success |-> success, data |-> data]
         /\ out' = JobId(success, data)
    /\ UNCHANGED <<loopVars, listenerVars, coreVars, sessions, bound>>

(***************************************************************************)
(* WebSocketSessionsInterface: the sessions and their connections          *)
(***************************************************************************)
\* the session_id of a Session that has none (None), written as a number
NoId == 0

\* Session objects, told apart by their session_id; one has none
Sessions == [session_id : (1..NumSessions) \cup {NoId}]

\* the websockets of the open connections
Connections == 1..NumConnections

\* line 366: self._sessions_to_websockets = {}; a dict is a function of its keys
EmptyDict == [s \in {} |-> 0]

\* d[key] = value
DictSet(d, key, value) ==
    [k \in DOMAIN d \cup {key} |-> IF k = key THEN value ELSE d[k]]

\* d.pop(key) for a key of d
DictPop(d, key) == [k \in DOMAIN d \ {key} |-> d[k]]

\* line 397: register_websocket_session(websocket, session)
RegisterWebsocketSession(d, websocket, session) == DictSet(d, session, websocket)

\* variant of UnregisterWebsocketSession: pop without the membership test
UnregisterPopsAlways(d, session) ==
    IF session = <<>> THEN [raised |-> None, dict |-> d]
    ELSE IF session[1].session_id = NoId THEN [raised |-> None, dict |-> d]
    ELSE IF session[1] \in DOMAIN d
    THEN [raised |-> None, dict |-> DictPop(d, session[1])]
    ELSE [raised |-> "KeyError", dict |-> d]

\* lines 408-416: unregister_websocket_session(session)
UnregisterWebsocketSession(d, session) ==
    IF session = <<>> THEN [raised |-> None, dict |-> d]
    ELSE IF session[1].session_id = NoId THEN [raised |-> None, dict |-> d]
    ELSE IF session[1] \in DOMAIN d
    THEN [raised |-> None, dict |-> DictPop(d, session[1])]
    ELSE [raised |-> None, dict |-> d]

\* the calls made on the relation so far; call.before is the relation as the
\* last call found it
CallCount == IF "n" \in DOMAIN call THEN call.n ELSE 0

\* a connection is registered for a session
Register ==
    /\ CallCount < MaxCalls
    /\ \E websocket \in Connections, session \in Sessions :
         /\ call' = [op |-> "register_websocket_session", n |-> CallCount + 1,
                     websocket |-> websocket, session |-> session, before |-> sessions]
         /\ sessions' = RegisterWebsocketSession(sessions, websocket, session)
         /\ bound' = [bound EXCEPT ![session] = <<websocket>>]
    /\ out' = [raised |-> None]
    /\ UNCHANGED <<loopVars, listenerVars, coreVars>>

\* a session is unregistered; the argument may be None.  bound forgets the
\* session when the argument is a session with a session id.
Unregister ==
    /\ CallCount < MaxCalls
    /\ \E session \in Optional(Sessions) :
         LET r == UnregisterWebsocketSession(sessions, session)
         IN  /\ call' = [op |-> "unregister_websocket_session", n |-> CallCount + 1,
                         session |-> session, before |-> sessions]
             /\ sessions' = r.dict
             /\ out' = [raised |-> r.raised]
             /\ bound' = IF session = <<>> THEN bound
                         ELSE IF session[1].session_id = NoId THEN bound
                         ELSE [bound EXCEPT ![session[1]] = <<>>]
    /\ UNCHANGED <<loopVars, listenerVars, coreVars>>

NextSessions == Register \/ Unregister

\* lines 363-366: the service after __init__; nothing of the library called
InitLib ==
    /\ call = NoCall
    /\ out = None
    /\ sessions = EmptyDict
    /\ bound = [s \in Sessions |-> <<>>]

\* a caller runs the partitioner container
CallExecutePartitionerContainer ==
    /\ Idle
    /\ \E outcome \in RunOutcomes :
         /\ call' = [op |-> "_execute_partitioner_container", outcome |-> outcome]
         /\ out' = ExecutePartitionerContainer(outcome)
    /\ UNCHANGED <<loopVars, listenerVars, coreVars, sessions, bound>>

(***************************************************************************)
(* dmod.metrics.scoring: scale_value                                       *)
(*                                                                         *)
(* Numbers are exact fractions n/d with d > 0; d = 0 stands for the        *)
(* floats that are no numbers: 1/0 is inf, -1/0 is -inf and 0/0 is nan.    *)
(* Floating-point rounding is left out: the values used are sums of powers *)
(* of two, and the tests compare with a tolerance.                         *)
(***************************************************************************)
Frac(n, d) == [n |-> n, d |-> d]

Whole(n) == Frac(n, 1)

infinity == Frac(1, 0)

NegInfinity == Frac(-1, 0)

NaN == Frac(0, 0)

IsNan(x) == x.d = 0 /\ x.n = 0

IsInf(x) == x.d = 0 /\ x.n /= 0

\* a == b and a < b of floats; every comparison with nan is false
Eq(a, b) ==
    IF IsNan(a) \/ IsNan(b) THEN FALSE
    ELSE IF IsInf(a) \/ IsInf(b) THEN a = b
    ELSE a.n * b.d = b.n * a.d

Less(a, b) ==
    IF IsNan(a) \/ IsNan(b) THEN FALSE
    ELSE IF IsInf(a) \/ IsInf(b) THEN a /= b /\ (a = NegInfinity \/ b = infinity)
    ELSE a.n * b.d < b.n * a.d

\* a - b, a * b and a + b where at most one of a, b is infinite and a
\* product has a finite factor 0 only with a finite other factor
Sub(a, b) ==
    IF IsInf(a) THEN a
    ELSE IF IsInf(b) THEN Frac(-b.n, 0)
    ELSE Frac(a.n * b.d - b.n * a.d, a.d * b.d)

Mul(a, b) == Frac(a.n * b.n, a.d * b.d)

Add(a, b) == Frac(a.n * b.d + b.n * a.d, a.d * b.d)

\* min(a, b) and max(a, b) of Python: b when it is smaller (larger), else a
Min(a, b) == IF Less(b, a) THEN b ELSE a

Max(a, b) == IF Less(a, b) THEN b ELSE a

\* a Metric, by what scale_value reads of it (lines 85-87)
Metric(lower_bound, upper_bound, ideal_value) ==
    [lower_bound |-> lower_bound, upper_bound |-> upper_bound, ideal_value |-> ideal_value]

\* lines 171-195
HasUpperBound(metric) == ~IsNan(metric.upper_bound) /\ Less(metric.upper_bound, infinity)

HasLowerBound(metric) == ~IsNan(metric.lower_bound) /\ Less(NegInfinity, metric.lower_bound)

HasIdealValue(metric) == ~IsNan(metric.ideal_value) /\ ~IsInf(metric.ideal_value)

Bounded(metric) == HasLowerBound(metric) \/ HasUpperBound(metric)

\* lines 17-51: scale_value(metric, raw_value).  rise and run are chosen in
\* lines 25-38 (0 and 1 when no branch is taken); rise / run raises
\* ZeroDivisionError when run is 0, and a finite rise over inf is 0; lines
\* 44-48 keep the scaled value between the bounds of the metric.
ScaleValue(metric, raw_value) ==
    LET ideal_is_lower == Eq(metric.ideal_value, metric.lower_bound)
        ideal_is_upper == Eq(metric.ideal_value, metric.upper_bound)
        ideal_inside == /\ Less(metric.lower_bound, metric.ideal_value)
                        /\ Less(metric.ideal_value, metric.upper_bound)
        below == ~Less(metric.ideal_value, raw_value)
        rise == IF ideal_is_lower THEN -1
                ELSE IF ideal_is_upper THEN 1
                ELSE IF ideal_inside THEN (IF below THEN 1 ELSE -1)
                ELSE 0
        run == IF ideal_is_lower \/ ideal_is_upper
               THEN Sub(metric.upper_bound, metric.lower_bound)
               ELSE IF ideal_inside
               THEN IF below THEN Sub(metric.ideal_value, metric.lower_bound)
                    ELSE Sub(metric.upper_bound, metric.ideal_value)
               ELSE Whole(1)
        slope == IF IsInf(run) THEN Whole(0) ELSE Frac(rise * run.d, run.n)
        y_intercept == Sub(Whole(1), Mul(slope, metric.ideal_value))
        scaled_value == Add(Mul(slope, raw_value), y_intercept)
        capped == IF HasUpperBound(metric) THEN Min(scaled_value, metric.upper_bound)
                  ELSE scaled_value
    IN  IF IsNan(raw_value) THEN [raised |-> None, value |-> NaN]
        ELSE IF HasIdealValue(metric) /\ Bounded(metric)
        THEN IF run.n = 0 THEN [raised |-> "ZeroDivisionError", value |-> NaN]
             ELSE [raised |-> None,
                   value |-> IF HasLowerBound(metric) THEN Max(capped, metric.lower_bound)
                             ELSE capped]
        ELSE [raised |-> None, value |-> raw_value]

\* the metrics and raw values scale_value is called with: bounds that are
\* infinite or finite (lower_bound <= upper_bound), an ideal value that is
\* nan, a bound or another number, a raw value that is nan or finite
LowerBounds == {NegInfinity, Whole(-1), Whole(0), Whole(2)}

UpperBounds == {Whole(0), Whole(1), Whole(4), infinity}

IdealValues == {NaN, Whole(-1), Whole(0), Frac(1, 2), Whole(1), Whole(2), Whole(4)}

RawValues ==
    {NaN, Whole(-2), Frac(-3, 4), Whole(0), Frac(1, 2), Frac(3, 4), Whole(1), Frac(3, 2),
     Whole(2), Whole(3), Whole(4), Whole(5)}

Metrics ==
    { metric \in { Metric(lower_bound, upper_bound, ideal_value) :
                      lower_bound \in LowerBounds, upper_bound \in UpperBounds,
                      ideal_value \in IdealValues } :
        ~Less(metric.upper_bound, metric.lower_bound) }

\* a caller scales a raw value
CallScaleValue ==
    /\ Idle
    /\ \E metric \in Metrics, raw_value \in RawValues :
         /\ call' = [op |-> "scale_value", metric |-> metric, raw_value |-> raw_value]
         /\ out' = ScaleValue(metric, raw_value)
    /\ UNCHANGED <<loopVars, listenerVars, coreVars, sessions, bound>>

NextScoring == CallScaleValue

(***************************************************************************)
(* manage_job_partitioning as a task of the event loop                     *)
(***************************************************************************)
\* the task created for manage_job_partitioning, the first coroutine registered
Orchestration == 1

\* lines 351, 356, 383: the awaits of manage_job_partitioning.  Only there
\* is the task suspended, so only there do other tasks of the loop get to run
\* and only there is a CancelledError thrown into it.
SuspensionPoints == {"lookup", "create", "sleep"}

\* the awaits inside the try block of lines 346-373
AwaitsInTry == {"lookup", "create"}

\* What asyncio.CancelledError derives from: Exception up to Python 3.7 (the
\* version line 344 of websocket_interface.py names, and the first to have
\* create_task, all_tasks and current_task), BaseException from Python 3.8.
CancelledErrorBases == {"Exception", "BaseException"}

\* line 374, except Exception, for a CancelledError thrown in at an await
CatchesCancelledError(at, base) == at \in AwaitsInTry /\ base = "Exception"

\* the orchestration task takes a step; it does so while it is not cancelled
LoopRuns ==
    /\ tstate[Orchestration] = "ready"
    /\ pc \notin {"raised", "cancelled"}
    /\ NextLoop

\* line 126: a signal arrives; the loop runs its handler between two steps
\* of its tasks
SignalArrives == pc \in SuspensionPoints /\ \E sig \in Signals : Signal(sig)

\* lines 345-351: the shutdown task runs while the orchestration task is
\* suspended, and cancels it
ShutdownRuns == pc \in SuspensionPoints /\ \E s \in ShutdownIds : ShutdownStarts(s)

\* line 348, then lines 351, 356 or 383: the CancelledError is thrown into the
\* orchestration task at the await it is suspended in.  Outside the try block
\* (line 383), or when except Exception does not match it, it ends the task.
\* Otherwise line 376 fails the job, the task goes on with save_job and the
\* request to cancel is used up.
LoopCancelled ==
    /\ tstate[Orchestration] = "cancelling"
    /\ pc \in SuspensionPoints
    /\ \E base \in CancelledErrorBases :
         IF CatchesCancelledError(pc, base)
         THEN /\ jobs' = [jobs EXCEPT ![idx] = OnException(@)]
              /\ pc' = "save"
              /\ tstate' = [tstate EXCEPT ![Orchestration] = "ready"]
         ELSE /\ pc' = "cancelled"
              /\ tstate' = [tstate EXCEPT ![Orchestration] = "cancelled"]
              /\ UNCHANGED jobs
    /\ log' = IF pc \in AwaitsInTry THEN Resolve(log, "cancelled", None) ELSE log
    /\ UNCHANGED <<store, idx, snapshot, frame>>
    /\ UNCHANGED <<phase, requested, scheduled, order, ret, sd, trigger, got, closed>>
    /\ UNCHANGED <<listenerVars, libVars>>

\* lines 351-352: gather returns to the shutdown task once the tasks it
\* cancelled are done; the loop is stopped
ShutdownEnds == \E s \in ShutdownIds : ShutdownResumes(s)

\* the orchestration task and the shutdown of the service
NextCancel ==
    \/ LoopRuns
    \/ SignalArrives
    \/ ShutdownRuns
    \/ LoopCancelled
    \/ ShutdownEnds

\* the calls of the message library
NextMessages ==
    \/ CallParseRequestType
    \/ CallDatasetManagementMessage
    \/ CallGetForName
    \/ CallFactoryInitFromDeserializedJson
    \/ CallSchedulerRequestMessage
    \/ CallSchedulerRequestFromJson
    \/ RoundTripMessage
    \/ RoundTripRequest
    \/ CallJobId
    \/ CallExecutePartitionerContainer

\* the service after construction
Init == InitLoop /\ InitListener /\ InitCore /\ InitLib

\* the service up and serving
InitServing == InitLoop /\ InitListener /\ CoreServing /\ InitLib

\* the service with no job awaiting partitioning in the store
QuietStore == \A j \in JobIds : store[j] = Job(j, AWAITING_ALLOCATION, OtherReqList, 2)

InitQuiet == InitServing /\ QuietStore

\* the service with one job awaiting partitioning, its hydrofabric resolvable
BusyReqList ==
    <<ForcingReq,
      HydroReq(<<DiscreteRestriction("uid", <<"u1">>),
                 DiscreteRestriction("data_id", <<"d1">>)>>)>>

BusyStore ==
    /\ store[1] = Job(1, AWAITING_PARTITIONING, BusyReqList, 2)
    /\ \A j \in JobIds \ {1} : store[j] = Job(j, AWAITING_ALLOCATION, OtherReqList, 2)

InitBusy == InitServing /\ BusyStore

\* the service after construction, with no job awaiting partitioning
InitBoot == Init /\ QuietStore

Next ==
    \/ NextLoop
    \/ NextListener
    \/ NextCore
    \/ \E i \in Indexes : Query(i)
    \/ LoopCancelled
    \/ NextSessions
    \/ NextMessages
    \/ NextScoring

\* the orchestration task alone
SpecLoop == InitServing /\ [][NextLoop]_vars

\* the orchestration task alone, on an event loop that runs it whenever it can
\* run and with collaborators that answer every call
SpecLoopFair == SpecLoop /\ WF_vars(NextLoop)

\* the connections alone
SpecListener == InitQuiet /\ [][NextListener]_vars

\* the orchestration task and the connections, interleaved
SpecRequests == InitBusy /\ [][NextLoop \/ NextListener]_vars

\* the tasks of the service: registration, run and lookup by index
SpecRegistry == InitBoot /\ [][NextRegistry]_vars

\* the event loop and its tasks: registration, run, signals and shutdown
SpecCore == InitBoot /\ [][NextCore]_vars

\* the same on an event loop that runs every task that can run, with tasks that
\* end at the suspension point where their cancellation reaches them
SpecCoreFair == SpecCore /\ WF_vars(CoreProgress)

\* the orchestration task at work on one job while the service is shut down
SpecCancel == InitBusy /\ [][NextCancel]_vars

\* the message library, called with arguments of every shape
SpecMessages == InitBoot /\ [][NextMessages]_vars

\* the sessions of a WebSocketSessionsInterface and their connections
SpecSessions == InitBoot /\ [][NextSessions]_vars

\* scale_value, called with every metric and raw value of the bounded sets
SpecScoring == InitBoot /\ [][NextScoring]_vars

\* the orchestration task, the connections and the event loop, interleaved
Spec == Init /\ [][Next]_vars

(***************************************************************************)
(* Properties of the orchestration loop.                                   *)
(***************************************************************************)
Last(q) == q[Len(q)]

\* the pass picked job i up: it enumerated it awaiting partitioning
PickedUp(i) == snapshot[i].status_step = AWAITING_PARTITIONING

\* the pass has finished with job i: the for loop has moved past it
Finished(i) == i < idx

\* the k-th collaborator call for the job in progress was op and ended res
LogIs(k, op, res) == Len(log) >= k /\ log[k].op = op /\ log[k].res = res

\* no data service request and no executor run was made for job i
NoRequestFor(i) == \A k \in DOMAIN log : log[k].job_id /= i \/ log[k].op = "SAVE"

HydrofabricReqs(job) == SelectSeq(job.data_requirements, IsHydrofabric)

\* requirement req restricts variable v to more than one value
MultiValued(req, v) ==
    \E k \in DOMAIN req.domain.discrete_restrictions :
        /\ req.domain.discrete_restrictions[k].variable = v
        /\ Len(req.domain.discrete_restrictions[k].values) > 1

\* C1: a job a pass picked up awaiting partitioning is, once the pass has
\* finished with it, at AWAITING_ALLOCATION or PARTITIONING_FAILED, whatever the
\* collaborators did; and the loop gives no job any other step than these two.
C1_StepDecided ==
    \A i \in DOMAIN jobs :
        /\ jobs[i].status_step \in
              {snapshot[i].status_step, AWAITING_ALLOCATION, PARTITIONING_FAILED}
        /\ (PickedUp(i) /\ Finished(i)) =>
              jobs[i].status_step \in {AWAITING_ALLOCATION, PARTITIONING_FAILED}

\* a pass that left one job allocated and one failed, the last save failing
C1_Witness ==
    /\ pc = "sleep"
    /\ Len(jobs) >= 2
    /\ PickedUp(1) /\ jobs[1].status_step = AWAITING_ALLOCATION
    /\ PickedUp(2) /\ jobs[2].status_step = PARTITIONING_FAILED
    /\ log /= <<>> /\ Last(log).op = "SAVE" /\ Last(log).res = "raised"

\* the lookup returned a name, the creation succeeded, the executor succeeded
Partitioned ==
    LogIs(1, "SEARCH", "ok") /\ LogIs(2, "CREATE", "ok") /\ LogIs(3, "RUN", "output")

\* C2: when the lookup returns a dataset name, the creation succeeds and the
\* executor succeeds, the job is at AWAITING_ALLOCATION and its requirements are
\* the ones it had followed by exactly one more: an input requirement of
\* category CONFIG, restricted to the data_id the creation returned and
\* fulfilled by the name of the created dataset.
C2_SuccessAppendsConfig ==
    Partitioned =>
        LET i == log[1].job_id
            old == snapshot[i].data_requirements
            new == jobs[i].data_requirements
        IN  /\ PickedUp(i)
            /\ jobs[i].status_step = AWAITING_ALLOCATION
            /\ Len(new) = Len(old) + 1
            /\ SubSeq(new, 1, Len(old)) = old
            /\ Last(new).category = "CONFIG"
            /\ Last(new).is_input
            /\ Last(new).fulfilled_by = log[2].name
            /\ Last(new).domain.discrete_restrictions =
                  <<DiscreteRestriction("data_id", <<log[2].data_id>>)>>

\* a pass ended after partitioning a job that had two requirements
C2_Witness ==
    /\ Partitioned
    /\ pc = "sleep"
    /\ Len(snapshot[log[1].job_id].data_requirements) = 2
    /\ Len(jobs[log[1].job_id].data_requirements) = 3

\* the lookup and the creation succeeded, the executor exited non-zero
NonZeroExit ==
    LogIs(1, "SEARCH", "ok") /\ LogIs(2, "CREATE", "ok")
    /\ LogIs(3, "RUN", "ContainerError")

\* C3: when lookup and creation succeed but the executor reports a non-zero
\* exit, the job is at PARTITIONING_FAILED and its requirements are exactly the
\* ones it had before the pass.
C3_NonZeroExitFails ==
    NonZeroExit =>
        LET i == log[1].job_id
        IN  /\ jobs[i].status_step = PARTITIONING_FAILED
            /\ jobs[i].data_requirements = snapshot[i].data_requirements

\* a pass ended after the executor exited non-zero for a job
C3_Witness ==
    /\ NonZeroExit
    /\ pc = "sleep"
    /\ PickedUp(log[1].job_id)
    /\ Len(log) = 4

\* job i was picked up with one HYDROFABRIC requirement, which restricts v to
\* more than one value
OneHydrofabricMultiValued(i, v) ==
    /\ PickedUp(i)
    /\ Len(HydrofabricReqs(snapshot[i])) = 1
    /\ MultiValued(HydrofabricReqs(snapshot[i])[1], v)

\* C4: when the HYDROFABRIC requirement of a job restricts uid (or data_id) to
\* more than one value, the extraction yields no value for that variable, no
\* lookup is made for the job and the job ends the pass at PARTITIONING_FAILED.
C4_MultiValuedFails ==
    \A i \in DOMAIN snapshot : \A v \in {"data_id", "uid"} :
        OneHydrofabricMultiValued(i, v) =>
            /\ FindRequiredHydrofabricDetails(snapshot[i])[v] = None
            /\ NoRequestFor(i)
            /\ Finished(i) => jobs[i].status_step = PARTITIONING_FAILED

\* a pass ended with one job failed for its uid and one for its data_id
C4_Witness ==
    /\ pc = "sleep"
    /\ \E i \in DOMAIN jobs :
          OneHydrofabricMultiValued(i, "uid")
          /\ jobs[i].status_step = PARTITIONING_FAILED
    /\ \E i \in DOMAIN jobs :
          OneHydrofabricMultiValued(i, "data_id")
          /\ jobs[i].status_step = PARTITIONING_FAILED

\* C5: a job the pass enumerated at another step than AWAITING_PARTITIONING is
\* skipped: its in-memory record and its persisted record stay as enumerated
\* and no data service request, executor run or save is made for it.
C5_OthersSkipped ==
    \A i \in DOMAIN jobs :
        ~PickedUp(i) =>
            /\ jobs[i] = snapshot[i]
            /\ store[i] = snapshot[i]
            /\ \A k \in DOMAIN log : log[k].job_id /= i

\* a pass ended that skipped a failed job and partitioned the job after it
C5_Witness ==
    /\ pc = "sleep"
    /\ Len(jobs) >= 2
    /\ snapshot[1].status_step = PARTITIONING_FAILED
    /\ PickedUp(2) /\ jobs[2].status_step = AWAITING_ALLOCATION

\* this step raises an error in the try block for the job at idx: in the
\* extraction, in a data service round trip, or a hard executor error
RaisedStep ==
    \/ /\ pc = "for" /\ pc' /= "for"
       /\ idx <= Len(jobs)
       /\ FindRequiredHydrofabricDetails(jobs[idx]).raised
    \/ /\ pc \in {"lookup", "create", "execute"}
       /\ log' /= <<>>
       /\ Last(log').res \in {"raised", "Exception"}

\* the error raised for the job at idx has been caught: save is next
FailureCaught ==
    /\ pc = "save"
    /\ \/ log = <<>> /\ FindRequiredHydrofabricDetails(snapshot[idx]).raised
       \/ log /= <<>> /\ Last(log).res \in {"raised", "Exception"}

\* C6: an error raised while a pass processes a job is caught in the loop: the
\* job is set to PARTITIONING_FAILED and saved, the for loop goes on with the
\* next job in enumeration order, the pass ends in the sleep and the next pass
\* is started; no step taken for a job ends the task with an exception.
C6_FailureIsJobScoped ==
    /\ [][ /\ RaisedStep =>
                /\ pc' = "save" /\ idx' = idx
                /\ jobs'[idx].status_step = PARTITIONING_FAILED
           /\ pc = "save" => pc' = "for" /\ idx' = idx + 1
           /\ (pc = "for" /\ idx <= Len(jobs)) =>
                \/ pc' = "for" /\ idx' = idx + 1
                \/ pc' \in {"lookup", "save"} /\ idx' = idx
           /\ (pc = "for" /\ idx > Len(jobs)) => pc' = "sleep"
           /\ pc = "sleep" => pc' = "poll"
           /\ pc' = "raised" => pc = "poll" ]_vars
    /\ FailureCaught ~> (pc = "sleep")
    /\ FailureCaught ~> (pc = "poll")

\* a pass ended in which the extraction raised for the first job and the
\* lookup raised for the second
C6_Witness ==
    /\ pc = "sleep"
    /\ Len(jobs) >= 2
    /\ PickedUp(1)
    /\ FindRequiredHydrofabricDetails(snapshot[1]).raised
    /\ jobs[1].status_step = PARTITIONING_FAILED
    /\ LogIs(1, "SEARCH", "raised") /\ log[1].job_id = 2
    /\ jobs[2].status_step = PARTITIONING_FAILED

\* this step is a call of save_job
SaveStep == Len(log') = Len(log) + 1 /\ Last(log').op = "SAVE"

\* C7: a failing save_job is passed over: the task goes on with the next job of
\* the pass, the step decided for the job stays in its in-memory record, and
\* save_job is not called again for the job in that pass (every save is for the
\* job at the loop's index, which then moves on and only a new pass resets).
C7_SaveFailureSwallowed ==
    [][ /\ (SaveStep /\ Last(log').res = "raised") =>
             /\ pc' = "for" /\ idx' = idx + 1
             /\ jobs' = jobs
             /\ jobs[idx].status_step \in {AWAITING_ALLOCATION, PARTITIONING_FAILED}
             /\ store' = store
        /\ SaveStep =>
             /\ pc = "save"
             /\ Last(log').job_id = jobs[idx].job_id
             /\ idx' = idx + 1
             /\ \A k \in DOMAIN log : log[k].op /= "SAVE"
        /\ idx' < idx => pc = "poll" ]_vars

\* a pass ended in which the save of the first job failed, leaving its record
\* in the store as it was, and the second job was processed
C7_Witness ==
    /\ pc = "sleep"
    /\ Len(jobs) >= 2
    /\ PickedUp(1)
    /\ jobs[1].status_step = AWAITING_ALLOCATION
    /\ store[1] = snapshot[1]
    /\ PickedUp(2)
    /\ jobs[2].status_step = PARTITIONING_FAILED
    /\ store[2] = jobs[2]

\* C8: once the persisted step of a job is PARTITIONING_FAILED, the loop never
\* changes the persisted record, a pass enumerates the job as persisted and
\* leaves its in-memory record as enumerated, and no lookup, create, executor
\* call or save is made for the job.
C8_NoRetryFromFailed ==
    [][ \A j \in JobIds :
            store[j].status_step = PARTITIONING_FAILED =>
                /\ store'[j] = store[j]
                /\ j \in DOMAIN jobs' =>
                      jobs'[j] = IF j \in DOMAIN jobs THEN jobs[j] ELSE store[j]
                /\ (pc = "poll" /\ pc' = "for") => jobs'[j] = store[j]
                /\ ~(log' /= log /\ log' /= <<>> /\ Last(log').job_id = j) ]_vars

\* a pass ended that enumerated as failed a job an earlier pass had failed
C8_Witness ==
    /\ pc = "sleep"
    /\ \E j \in DOMAIN jobs :
          /\ snapshot[j].status_step = PARTITIONING_FAILED
          /\ snapshot[j].data_requirements /= OtherReqList
          /\ jobs[j] = snapshot[j]
          /\ store[j] = snapshot[j]

(***************************************************************************)
(* Properties of the request-driven path.                                  *)
(***************************************************************************)
\* C9: when the executor reports a non-zero exit for a request, the listener
\* ends normally having sent a PartitionResponse with success false and a
\* reason.
C9_NonZeroExitAnswer ==
    (lpc \in {"done", "raised"} /\ Len(rlog) >= 3 /\ rlog[3].op = "RUN"
       /\ rlog[3].res = "ContainerError") =>
        /\ lpc = "done"
        /\ Len(sent) = 1
        /\ ~sent[1].success
        /\ sent[1].reason /= ""

\* C10: when the listener has finished with a received message, it has sent
\* exactly one response on the connection.
C10_OneResponse ==
    (lpc \in {"done", "raised"} /\ lframe.message /= NoMessage) => Len(sent) = 1

\* a step of the request-driven path: listener or _async_process_request
RequestStep == listenerVars' /= listenerVars

\* the collaborator calls made for a connection
RequestCalls == { rlog[k].op : k \in 1..Len(rlog) }

\* C11: handling a request never touches job state: no step of the
\* request-driven path, wherever the polling pass is at, changes the store or
\* a job the pass holds, and the only calls it makes are the SEARCH and CREATE
\* requests and the container run (no get_all_active_jobs, no save_job).
C11_RequestsLeaveJobs ==
    [][RequestStep => /\ UNCHANGED loopVars
                      /\ RequestCalls' \subseteq {"SEARCH", "CREATE", "RUN"}]_vars

\* a request was answered while the polling pass was in the middle of a job
C11_Witness ==
    /\ lpc = "done"
    /\ Len(rlog) = 3
    /\ Len(sent) = 1
    /\ pc \in {"lookup", "create", "execute", "save"}
    /\ idx = 1

\* C12: a received message that cannot be turned into a request is answered
\* with the invalid-message response, no lookup, create or run is made for it
\* and no error escapes the listener.
C12_MalformedAnswered ==
    (lpc \in {"done", "raised"} /\ lframe.message /= NoMessage
       /\ ~IsRequest(lframe.message)) =>
        /\ lpc = "done"
        /\ sent = <<InvalidMessageResponse>>
        /\ rlog = <<>>

(***************************************************************************)
(* Properties of the service core.                                         *)
(***************************************************************************)
NoDuplicates(q) == \A i, j \in 1..Len(q) : i /= j => q[i] /= q[j]

\* the coroutines registered before run() appended self.server
RegisteredBeforeRun ==
    IF Server \in Range(requested)
    THEN SubSeq(requested, 1, (CHOOSE k \in 1..Len(requested) : requested[k] = Server) - 1)
    ELSE requested

C14_RegisteredWhileRunning ==
    [][/\ \A c \in BgIds :
            (Running /\ c \notin Range(requested) /\ c \in Range(requested'))
               => /\ tstate[c] = "none"
                  /\ tstate'[c] = "ready"
                  /\ order' = Append(order, c)
       /\ phase' /= "init" => Range(requested') \subseteq Range(order')
       /\ NoDuplicates(order')]_vars

\* a coroutine registered with run_forever driving the loop and nothing
\* registered before run() has its task
C14_Witness ==
    /\ phase = "forever"
    /\ requested = <<Server, 1>>
    /\ tstate[1] = "ready"
    /\ order = <<Server, 1>>

\* the index a registered coroutine has in _requested_tasks
RequestedIndex(c) == (CHOOSE k \in 1..Len(requested) : requested[k] = c) - 1

\* C15: the index add_async_task returned for a coroutine is the index at which
\* get_task_object returns the task created for it, once that task is created;
\* no two registered coroutines, self.server included, have the same index.
C15_IndexesConsistent ==
    /\ \A c \in BgIds :
          (c \in Range(requested) /\ tstate[c] /= "none") =>
              GetTaskObject(scheduled, ret[c]) = [result |-> "task", task |-> c]
    /\ \A c \in BgIds : c \in Range(requested) => ret[c] = RequestedIndex(c)
    /\ NoDuplicates(requested)

\* C16: get_task_object returns None, and does not raise, for every index that
\* is not in 0 .. len(_scheduled_tasks) - 1, negative ones included; it returns
\* a task for the indexes in that range only.
C16_AbsentOutsideRange ==
    got /= NoQuery =>
        /\ got.result /= "IndexError"
        /\ got.result = "task" <=> (0 <= got.index /\ got.index < got.len)

\* task me begins shutdown() in this step
BeginsShutdown(me) == sd[me].pc = "no" /\ sd'[me].pc = "gather"

\* the shutdown() run by task me stops the loop in this step
StopsLoop(me) == sd[me].pc = "gather" /\ sd'[me].pc = "done"

LeftWhileScheduling ==
    phase = "stopped" /\ tstate[Server] = "none" /\ Len(requested) > 0

\* run() has left with the error raised while the accept task was started
LeftWhileStarting ==
    phase = "stopped" /\ tstate[Server] \in {"failed", "cancelled"}

\* run() has returned because a shutdown stopped the loop
LeftStopped ==
    phase = "stopped" /\ \E t \in TaskIds : sd[t].pc = "done"

\* C21: whichever way run() is left (the loop stopped, an error raised while
\* a registered task was scheduled, an error raised while the accept task was
\* started), the event loop has been closed exactly once; it is not closed
\* while run() is still executing.
C21_LoopClosedOnExit ==
    /\ closed \in {0, 1}
    /\ (phase = "stopped") <=> (closed = 1)
    /\ (phase = "stopped") => (LeftWhileScheduling \/ LeftWhileStarting \/ LeftStopped)

\* run() has left with an error raised at the second registered object, the
\* task of the first one already created
C21_Witness ==
    /\ LeftWhileScheduling
    /\ Len(scheduled) = 1
    /\ closed = 1

\* the orchestration task was suspended at an await with a request to cancel
\* it pending, and has been resumed
ResumedCancelled ==
    /\ tstate[Orchestration] = "cancelling"
    /\ pc \in SuspensionPoints
    /\ pc' /= pc

\* C22: when the orchestration task is cancelled while it is suspended in the
\* lookup round trip, in the create round trip or in the sleep between two
\* passes, it ends there as a cancelled task: the job in progress is not set to
\* PARTITIONING_FAILED, nothing is saved, and once it has ended it processes
\* no further job and starts no further pass.
C22_CancelledStopsAtSuspension ==
    [][/\ ResumedCancelled =>
            /\ pc' = "cancelled"
            /\ tstate'[Orchestration] = "cancelled"
            /\ jobs' = jobs
            /\ store' = store
       /\ pc = "cancelled" => UNCHANGED loopVars]_vars

\* C23: parse_request_type matches in order.  It returns SESSION_INIT exactly
\* when check_for_auth is set and the session-init validator accepts the
\* envelope, whatever the model-execution validator would say (it is not run
\* then); otherwise MODEL_EXEC_REQUEST exactly when the model-execution
\* validator accepts; otherwise INVALID.  The error map has an entry for every
\* type but INVALID: the error of each validator that ran, None elsewhere.
C23_OrderedMatch ==
    call.op = "parse_request_type" =>
        LET auth == call.check_for_auth /\ call.data.session_init.ok
        IN  /\ (out.type = "SESSION_INIT") <=> auth
            /\ (out.type = "MODEL_EXEC_REQUEST") <=> (~auth /\ call.data.model_exec.ok)
            /\ (out.type = "INVALID") <=> (~auth /\ ~call.data.model_exec.ok)
            /\ ~call.check_for_auth => out.type /= "SESSION_INIT"
            /\ DOMAIN out.errors = MessageEventType \ {"INVALID"}
            /\ \A t \in DOMAIN out.errors :
                 out.errors[t] =
                     IF t = "SESSION_INIT" /\ call.check_for_auth
                     THEN call.data.session_init.error
                     ELSE IF t = "MODEL_EXEC_REQUEST" /\ ~auth
                     THEN call.data.model_exec.error
                     ELSE None

\* an envelope both validators accept, parsed with check_for_auth set
C23_Witness ==
    /\ call.op = "parse_request_type"
    /\ call.check_for_auth
    /\ call.data.session_init.ok
    /\ call.data.model_exec.ok
    /\ out.type = "SESSION_INIT"

\* the construction of a message meets the requirements of its action
MeetsRequirements(action, dataset_name, category) ==
    /\ action.requires_name => dataset_name /= None
    /\ action.requires_category => category /= None

\* C24: CREATE, ADD_DATA, REMOVE_DATA, DELETE and QUERY require a dataset
\* name, CREATE and SEARCH a category.  Constructing a message without the
\* name, or without the category, its action requires raises RuntimeError;
\* with each of them given where it is required the construction succeeds, so
\* for CLOSE_AWAITING and UNKNOWN it succeeds with both absent; a constructed
\* message has what its action requires.
C24_RequiredFieldsChecked ==
    /\ { a.name : a \in { b \in ManagementActions : b.requires_name } } =
           {"CREATE", "ADD_DATA", "REMOVE_DATA", "DELETE", "QUERY"}
    /\ { a.name : a \in { b \in ManagementActions : b.requires_category } } =
           {"CREATE", "SEARCH"}
    /\ call.op = "DatasetManagementMessage" =>
         /\ (call.action.requires_name /\ call.dataset_name = None) =>
                out.raised = "RuntimeError"
         /\ (call.action.requires_category /\ call.category = None) =>
                out.raised = "RuntimeError"
         /\ MeetsRequirements(call.action, call.dataset_name, call.category) =>
                /\ out.raised = None
                /\ ~out.none
                /\ out.obj.action = call.action
                /\ out.obj.dataset_name = call.dataset_name
                /\ out.obj.category = call.category
         /\ ~out.none =>
                MeetsRequirements(out.obj.action, out.obj.dataset_name, out.obj.category)

\* a CREATE message with a name and no category is refused
C24_Witness ==
    /\ call.op = "DatasetManagementMessage"
    /\ call.action.name = "CREATE"
    /\ call.dataset_name /= None
    /\ call.category = None
    /\ out.raised = "RuntimeError"

\* two strs are equal but for the case of their letters
EqualIgnoringCase(a, b) ==
    /\ Len(a) = Len(b)
    /\ \A i \in 1..Len(a) : Upper(a[i]) = Upper(b[i])

\* the members whose declared name is the str, ignoring case
Named(str) == { a \in ManagementActions : EqualIgnoringCase(str, Spelling[a.name]) }

\* C25 as stated: get_for_name returns a member for every str; it returns V
\* exactly when the str is V's declared name but for the case of the letters,
\* and UNKNOWN for every other str.
C25_ExactMatchIgnoringCase ==
    call.op = "get_for_name" =>
        /\ out \in ManagementActions
        /\ out = IF Named(call.name_str) = {} THEN Member("UNKNOWN")
                 ELSE CHOOSE a \in Named(call.name_str) : TRUE

\* C25, amended: get_for_name returns a member for every str; it returns V
\* exactly when the str without its leading and trailing whitespace is V's
\* declared name but for the case of the letters, and UNKNOWN for every other
\* str.
C25_MatchIgnoringCaseAndPadding ==
    call.op = "get_for_name" =>
        /\ out \in ManagementActions
        /\ Cardinality(Named(Strip(call.name_str))) <= 1
        /\ \A a \in ManagementActions \ {Member("UNKNOWN")} :
             (out = a) <=> (a \in Named(Strip(call.name_str)))
        /\ (out = Member("UNKNOWN")) <=>
               (Named(Strip(call.name_str)) \subseteq {Member("UNKNOWN")})

\* "Create" with whitespace around it is looked up and CREATE returned
C25_Witness ==
    /\ call.op = "get_for_name"
    /\ Len(call.name_str) > Len(Strip(call.name_str))
    /\ Strip(call.name_str) = Capitalised(Spelling["CREATE"])
    /\ out = Member("CREATE")

\* a JSON value was handed to one of the two factories
Parsed ==
    call.op \in {"DatasetManagementMessage.factory_init_from_deserialized_json",
                 "SchedulerRequestMessage.factory_init_from_deserialized_json"}

\* C26: for every JSON value, a dict with any of the expected keys or a value
\* that is no dict, the factories of DatasetManagementMessage and of
\* SchedulerRequestMessage return a message or None and raise nothing; a
\* message whose construction fails is reported as None.
C26_FactoriesNeverRaise == Parsed => out.raised = None

\* C27: a message serialized with to_dict and parsed again with
\* factory_init_from_deserialized_json is a message equal to the first: a
\* DatasetManagementMessage in every attribute, with and without its optional
\* fields; a SchedulerRequestMessage under its own equality (model request,
\* cpus, memory, user id and allocation paradigm), also when cpus, memory and
\* allocation paradigm were defaulted.
C27_RoundTrip ==
    /\ call.op = "DatasetManagementMessage.to_dict" =>
          /\ out.raised = None
          /\ ~out.none
          /\ out.obj = call.message
    /\ call.op = "SchedulerRequestMessage.to_dict" =>
          /\ out.raised = None
          /\ ~out.none
          /\ SchedulerRequestEq(out.obj, call.message)

\* a message built with cpus, memory and allocation paradigm defaulted has
\* made the round trip; the message read back carries the defaults as given
\* values
C27_Witness ==
    /\ call.op = "SchedulerRequestMessage.to_dict"
    /\ call.message.cpus_unset
    /\ call.message.memory_unset
    /\ call.message.allocation_paradigm = DefaultAllocationParadigm
    /\ ~out.none
    /\ out.obj.cpus = DefaultCpus
    /\ ~out.obj.cpus_unset

\* an allocation paradigm that is absent, no string, empty or only whitespace
Blank(allocation_paradigm) ==
    \/ allocation_paradigm.type /= "str"
    \/ \A i \in 1..Len(allocation_paradigm.value) :
          allocation_paradigm.value[i] \in Whitespace

\* C28: SchedulerRequestMessage(...) substitutes defaults: cpus=None gives
\* cpus 4 with cpus_unset true, a given cpus (0 included) is kept with
\* cpus_unset false; mem=None gives memory 500000 with memory_unset true, a
\* given mem is kept with memory_unset false; an allocation paradigm that is
\* absent, no string, empty or only whitespace gives "SINGLE_NODE", any other
\* string is kept as it is.
C28_DefaultsSubstituted ==
    call.op = "SchedulerRequestMessage" =>
        /\ call.cpus = <<>> => out.obj.cpus = 4 /\ out.obj.cpus_unset
        /\ call.cpus /= <<>> => out.obj.cpus = call.cpus[1] /\ ~out.obj.cpus_unset
        /\ call.mem = <<>> => out.obj.memory = 500000 /\ out.obj.memory_unset
        /\ call.mem /= <<>> => out.obj.memory = call.mem[1] /\ ~out.obj.memory_unset
        /\ Blank(call.allocation_paradigm) =>
              out.obj.allocation_paradigm = <<"S", "I", "N", "G", "L", "E", "_", "N", "O", "D", "E">>
        /\ ~Blank(call.allocation_paradigm) =>
              out.obj.allocation_paradigm = call.allocation_paradigm.value

\* a message was built with cpus 0, no mem and a whitespace allocation paradigm
C28_Witness ==
    /\ call.op = "SchedulerRequestMessage"
    /\ call.cpus = <<0>>
    /\ call.mem = <<>>
    /\ call.allocation_paradigm = [type |-> "str", value |-> <<" ", "\t">>]
    /\ out.obj.cpus = 0
    /\ out.obj.memory_unset
    /\ out.obj.allocation_paradigm = DefaultAllocationParadigm

\* C29: SchedulerRequestResponse.job_id is the id stored in data when success
\* is true, and -1 whenever success is false, whatever data is: a dict with
\* a job_id, a dict without one, or None.
C29_JobIdOrSentinel ==
    call.op = "job_id" =>
        /\ call.success /\ call.data /= <<>> /\ call.data[1].job_id /= <<>> =>
              out.raised = None /\ out.value = call.data[1].job_id[1]
        /\ ~call.success => out.raised = None /\ out.value = -1

\* job_id was read from a failed response whose data holds a job_id
C29_Witness ==
    /\ call.op = "job_id"
    /\ ~call.success
    /\ call.data /= <<>>
    /\ call.data[1].job_id = <<7>>
    /\ out.value = -1

\* the session of an unregistration that has nothing to remove: None, a
\* session without session id, or one that is not in the relation
Missing(d, session) ==
    \/ session = <<>>
    \/ session[1].session_id = NoId
    \/ session[1] \notin DOMAIN d

\* the relation holds, for every session, the connection most recently
\* registered for it and not since unregistered, and nothing else
MostRecentlyRegistered ==
    \A s \in Sessions :
        /\ s \in DOMAIN sessions <=> bound[s] /= <<>>
        /\ s \in DOMAIN sessions => sessions[s] = bound[s][1]

\* an unregistration with nothing to remove changes nothing and does not fail
MissingIsNoOp ==
    /\ call'.op = "unregister_websocket_session"
    /\ call'.n = call.n + 1
    /\ Missing(sessions, call'.session)
    => sessions' = sessions /\ out'.raised = None

\* the same call made again right after itself changes nothing and does not fail
RepeatedIsNoOp ==
    /\ call.op \in {"register_websocket_session", "unregister_websocket_session"}
    /\ call'.n = call.n + 1
    /\ call'.op = call.op
    /\ call'.session = call.session
    /\ call.op = "register_websocket_session" => call'.websocket = call.websocket
    => sessions' = sessions /\ out'.raised = None

\* C30: registration and unregistration are idempotent and no-ops on missing
\* keys: unregister_websocket_session for a session that is not in the
\* relation, is None or has no session id changes nothing and does not fail;
\* unregistering a session twice is unregistering it once, registering a
\* (session, connection) pair twice is registering it once; after any
\* sequence of calls each session has at most one connection, the one most
\* recently registered and not since unregistered.
C30_IdempotentRelation ==
    /\ []MostRecentlyRegistered
    /\ [][MissingIsNoOp /\ RepeatedIsNoOp]_vars

\* a session with a session id that is not in the relation, while another
\* session is, was unregistered: nothing changed and nothing was raised
C30_Witness ==
    /\ call.op = "unregister_websocket_session"
    /\ call.session /= <<>>
    /\ call.session[1].session_id /= NoId
    /\ call.session[1] \notin DOMAIN call.before
    /\ call.before /= EmptyDict
    /\ sessions = call.before
    /\ out.raised = None

IdealAtBound ==
    /\ call.op = "scale_value"
    /\ HasLowerBound(call.metric)
    /\ HasUpperBound(call.metric)
    /\ Less(call.metric.lower_bound, call.metric.upper_bound)
    /\ \/ Eq(call.metric.ideal_value, call.metric.lower_bound)
       \/ Eq(call.metric.ideal_value, call.metric.upper_bound)

\* the bound of the metric of the call that is not its ideal value
OppositeBound ==
    IF Eq(call.metric.ideal_value, call.metric.lower_bound)
    THEN call.metric.upper_bound ELSE call.metric.lower_bound

\* the raw value of the call is past the opposite bound, away from the ideal
BeyondOpposite ==
    IF Eq(call.metric.ideal_value, call.metric.lower_bound)
    THEN Less(call.metric.upper_bound, call.raw_value)
    ELSE Less(call.raw_value, call.metric.lower_bound)

\* C32: for a metric with a finite ideal value equal to one of its finite
\* bounds, scale_value sends the ideal value to 1, the midpoint of the bounds
\* to 1/2, the opposite bound to 0 and every raw value beyond the opposite
\* bound to 0 as well; a metric with no finite bound returns the raw value.
C32_ScaledToUnit ==
    /\ IdealAtBound /\ ~IsNan(call.raw_value) =>
          /\ out.raised = None
          /\ Eq(call.raw_value, call.metric.ideal_value) => Eq(out.value, Whole(1))
          /\ Eq(Add(call.raw_value, call.raw_value),
                Add(call.metric.lower_bound, call.metric.upper_bound)) =>
                Eq(out.value, Frac(1, 2))
          /\ Eq(call.raw_value, OppositeBound) => Eq(out.value, Whole(0))
          /\ BeyondOpposite => Eq(out.value, Whole(0))
    /\ call.op = "scale_value" /\ ~Bounded(call.metric) /\ ~IsNan(call.raw_value) =>
          out.raised = None /\ out.value = call.raw_value

\* the data service requests and executor runs of a log, with their outcomes
Calls(l) == [k \in DOMAIN l |-> <<l[k].op, l[k].res>>]

\* the polling path has decided the step of job 1 and is about to save it
PollingDecided == pc = "save" /\ idx = 1

\* the request path has finished with a request
RequestDone == lpc \in {"done", "raised"} /\ IsRequest(lframe.message)

\* the collaborators answered both paths alike, as far as both asked
SameOutcomes ==
    \A k \in DOMAIN log \cap DOMAIN rlog : Calls(log)[k] = Calls(rlog)[k]

\* C33: given the same collaborator outcomes, the request path and the
\* polling path make the same sequence of lookup, create and executor calls,
\* and the request is answered with a success response exactly when the job
\* is set to AWAITING_ALLOCATION.
C33_PathsAgree ==
    PollingDecided /\ RequestDone /\ SameOutcomes =>
        /\ Calls(log) = Calls(rlog)
        /\ (lpc = "done" /\ sent /= <<>> /\ Last(sent).success)
             <=> jobs[idx].status_step = AWAITING_ALLOCATION

\* a HYDROFABRIC requirement of the job restricts variable v to one value
HasSingle(job, v) ==
    \E i \in DOMAIN job.data_requirements :
        /\ IsHydrofabric(job.data_requirements[i])
        /\ \E r \in DOMAIN job.data_requirements[i].domain.discrete_restrictions :
              LET restriction == job.data_requirements[i].domain.discrete_restrictions[r]
              IN  restriction.variable = v /\ Len(restriction.values) = 1

\* the call ended in a failure of its step
StepFailed(event) ==
    event.op /= "SAVE" /\ event.res \notin {"pending", "ok", "output"}

\* C34: the steps for one job in a pass are ordered and stop at the first
\* failure: the SEARCH request is sent only after data_id and uid were both
\* extracted, the CREATE request only after the lookup gave a name, the
\* executor runs only after the create succeeded, no step follows a failed
\* one, and the job is saved only after its status was decided.
C34_StepsOrdered ==
    /\ \A k \in DOMAIN log :
          /\ log[k].op = "SEARCH" =>
                /\ k = 1
                /\ HasSingle(jobs[log[k].job_id], "data_id")
                /\ HasSingle(jobs[log[k].job_id], "uid")
          /\ log[k].op = "CREATE" => k = 2 /\ LogIs(1, "SEARCH", "ok")
          /\ log[k].op = "RUN" => k = 3 /\ LogIs(2, "CREATE", "ok")
          /\ log[k].op = "SAVE" =>
                /\ k = Len(log)
                /\ \A h \in 1..(k - 1) : log[h].res /= "pending"
                /\ jobs[log[k].job_id].status_step
                      \in {AWAITING_ALLOCATION, PARTITIONING_FAILED}
          /\ StepFailed(log[k]) /\ k < Len(log) => log[k + 1].op = "SAVE"
    /\ pc = "save" => jobs[idx].status_step \in {AWAITING_ALLOCATION, PARTITIONING_FAILED}

\* the create request of a job failed: the executor was not run and the job
\* was saved as failed
C34_Witness ==
    /\ Len(log) = 3
    /\ LogIs(1, "SEARCH", "ok")
    /\ LogIs(2, "CREATE", "none")
    /\ log[3].op = "SAVE"
    /\ jobs[log[3].job_id].status_step = PARTITIONING_FAILED

\* C35: the orchestration task has no terminal state and its passes are
\* sequential: whatever a collaborator call gives, the enumeration of the
\* active jobs included, the task never ends with an error; it sleeps only
\* after the pass has been through all its jobs, and a pass starts only
\* after the sleep.
C35_NoTerminalState ==
    /\ [](pc /= "raised")
    /\ [][ /\ pc' = "sleep" => pc = "for" /\ idx > Len(jobs)
           /\ pc' = "poll" => pc = "sleep"
           /\ (pc' = "for" /\ idx' = 1) => pc = "poll" ]_vars

\* one HYDROFABRIC requirement of the job restricts data_id to the one value
\* data_id and uid to the one value uid
FromOneRequirement(job, data_id, uid) ==
    \E i \in DOMAIN job.data_requirements :
        LET rs == job.data_requirements[i].domain.discrete_restrictions
        IN  /\ IsHydrofabric(job.data_requirements[i])
            /\ \E r \in DOMAIN rs : rs[r].variable = "data_id" /\ rs[r].values = <<data_id>>
            /\ \E r \in DOMAIN rs : rs[r].variable = "uid" /\ rs[r].values = <<uid>>

\* C36: the data_id and uid the lookup is made with are the single values
\* of the data_id and uid restrictions of one HYDROFABRIC requirement of the
\* job; when a value is missing the job is failed in this pass and neither a
\* data service request nor an executor run is made for it.
C36_DetailsFromOneRequirement ==
    /\ pc = "lookup" => FromOneRequirement(jobs[idx], frame.hy_data_id, frame.hy_uid)
    /\ (pc = "save" /\ ~(HasSingle(jobs[idx], "data_id") /\ HasSingle(jobs[idx], "uid"))) =>
          /\ log = <<>>
          /\ jobs[idx].status_step = PARTITIONING_FAILED

\* C37: _execute_partitioner_container gives (True, output) for a run that
\* succeeded, (False, None) and no exception for a non-zero exit, and for
\* every other error of the run raises a RuntimeError whose cause is that
\* error; there is no other outcome.
C37_ExecutorErrorTaxonomy ==
    call.op = "_execute_partitioner_container" =>
        /\ call.outcome = "output" =>
              ~out.raised /\ out.result /\ out.logs = "output"
        /\ call.outcome = "ContainerError" =>
              ~out.raised /\ ~out.result /\ out.logs = None
        /\ call.outcome \notin {"output", "ContainerError"} =>
              out.raised /\ out.cause = call.outcome

\* the container ran and exited with a non-zero code
C37_Witness ==
    /\ call.op = "_execute_partitioner_container"
    /\ call.outcome = "ContainerError"
    /\ ~out.raised
    /\ ~out.result

\* save_job(jobs[idx]) is called and returns without an error
SaveSucceeds == Save /\ Last(log').res = "ok"

\* the record of job j that the job store holds
Persisted(j, steps) == store[j].status_step \in steps

\* the pass ended and the save of the first job failed in it: the object of the
\* pass has the decided step, the persisted record still awaits partitioning
SaveFailedInPass ==
    /\ pc = "sleep"
    /\ snapshot[1].status_step = AWAITING_PARTITIONING
    /\ jobs[1].status_step \in {AWAITING_ALLOCATION, PARTITIONING_FAILED}
    /\ Persisted(1, {AWAITING_PARTITIONING})

\* C38: a pass enumerates the jobs as they are persisted, so a job whose save
\* failed is a candidate again in the next pass; when the task never ends with
\* an error and a call of save_job succeeds again and again for as long as
\* save_job is called, every job persisted as AWAITING_PARTITIONING is
\* eventually persisted as AWAITING_ALLOCATION or PARTITIONING_FAILED.
C38_EventuallyPersisted ==
    /\ [][ (pc = "poll" /\ pc' = "for") =>
              \A j \in JobIds :
                  Persisted(j, {AWAITING_PARTITIONING}) =>
                      jobs'[j] = store[j] /\ IsCandidate(jobs'[j]) ]_vars
    /\ ([](pc /= "raised") /\ SF_vars(SaveSucceeds)) =>
          \A j \in JobIds :
              Persisted(j, {AWAITING_PARTITIONING}) ~>
                  Persisted(j, {AWAITING_ALLOCATION, PARTITIONING_FAILED})

\* a pass ended in which the save of the first job failed, and the job is
\* still persisted as awaiting partitioning
C38_Witness == SaveFailedInPass

\* a requirement as lines 366-369 build it: a partition configuration dataset
IsPartitionConfig(requirement) ==
    /\ requirement.category = "CONFIG"
    /\ requirement.domain.data_format = "NGEN_PARTITION_CONFIG"

\* the requirements of the job that are partition configuration datasets
PartitionConfigs(job) == SelectSeq(job.data_requirements, IsPartitionConfig)

\* the object of the pass is the enumerated job with the step and the
\* requirements one outcome of lines 346-376 gives it
DecidedTogether(job, enumerated) ==
    /\ job.job_id = enumerated.job_id
    /\ \/ /\ job.status_step = PARTITIONING_FAILED
          /\ job.data_requirements = enumerated.data_requirements
       \/ /\ job.status_step = AWAITING_ALLOCATION
          /\ Len(job.data_requirements) = Len(enumerated.data_requirements) + 1
          /\ SubSeq(job.data_requirements, 1, Len(enumerated.data_requirements))
                = enumerated.data_requirements
          /\ IsPartitionConfig(Last(job.data_requirements))

\* C39: a persisted record has a partition configuration requirement only at
\* AWAITING_ALLOCATION and then exactly one, also in the passes after a failed
\* save; a record at PARTITIONING_FAILED has none.  save_job is called at
\* most once for a job picked up in a pass, with the enumerated job as one
\* outcome of the pass decided its step and its requirements, and what a
\* successful save persists is that object.
C39_PersistedConsistent ==
    /\ [](\A j \in JobIds :
            /\ Len(PartitionConfigs(store[j])) <= 1
            /\ Len(PartitionConfigs(store[j])) = 1 =>
                  store[j].status_step = AWAITING_ALLOCATION
            /\ store[j].status_step \in {PARTITIONING_FAILED, AWAITING_PARTITIONING} =>
                  PartitionConfigs(store[j]) = <<>>)
    /\ [](pc = "save" => DecidedTogether(jobs[idx], snapshot[idx]))
    /\ [](Cardinality({k \in DOMAIN log : log[k].op = "SAVE"}) <= 1)
    /\ [][ SaveStep =>
              /\ pc = "save" /\ idx' = idx + 1
              /\ Last(log').job_id = jobs[idx].job_id
              /\ IF Last(log').res = "ok"
                 THEN store' = [store EXCEPT ![jobs[idx].job_id] = jobs[idx]]
                 ELSE store' = store ]_vars

\* the first job of the pass was picked up awaiting partitioning and is
\* persisted as AWAITING_ALLOCATION, with the one requirement the pass appended
C39_Witness ==
    /\ pc = "for"
    /\ idx = 2
    /\ PickedUp(1)
    /\ log /= <<>> /\ Last(log).op = "SAVE" /\ Last(log).res = "ok"
    /\ store[1].status_step = AWAITING_ALLOCATION
    /\ Len(PartitionConfigs(store[1])) = 1
    /\ PartitionConfigs(snapshot[1]) = <<>>

\* two or more shutdown tasks were created by signals or by the exception
\* handler; each but the first was created while the loop was still running
SeveralShutdowns == Cardinality({s \in ShutdownIds : tstate[s] /= "none"}) >= 2

\* task t was cancelled by a shutdown
CancelledByShutdown(t) == \E s \in TaskIds : t \in sd[s].targets

\* C40: when several shutdowns are triggered close together the scheduler is
\* eventually stopped, and once it is stopped (the server's start not having
\* failed) one execution of shutdown has run to its end and no task that a
\* shutdown cancelled is still alive.
C40_ConcurrentShutdownsStop ==
    /\ SeveralShutdowns ~> (phase = "stopped")
    /\ [](phase = "stopped" /\ SeveralShutdowns /\ tstate[Server] /= "failed" =>
            /\ \E s \in TaskIds : sd[s].pc = "done"
            /\ \A t \in TaskIds : CancelledByShutdown(t) => ~Alive(tstate, t))
====
